---------------------------- MODULE Spec2Model ----------------------------
(***************************************************************************)
(* A model of the pipeline engine of exec-rest (sap_auto_runner):          *)
(*   upload.rs      Uploader::new, upload_file and its helpers             *)
(*   file_utils.rs  FileWatcher::find_newest_file, wait_for_stable_file    *)
(*   main.rs        run_once and the main loop                             *)
(* Text is modelled as sequences of one-character strings, so that the     *)
(* substring tests of the code are computed and not assumed.               *)
(***************************************************************************)
EXTENDS Integers, Sequences, FiniteSets, TLC

VARIABLES
    \* ---- Uploader::upload_file (upload.rs) ----
    retry_config,     \* RetryConfig {max_attempts, initial_backoff_secs}
    api_mode,         \* ApiConfig.mode
    attempt,          \* local `attempt`
    backoff_secs,     \* local `backoff_secs`
    sleeps,           \* the durations slept so far, in order
    upc,              \* "attempt" (in the loop) | "done" | "failed"
    fail_kind,        \* which bail! ended the call: "none" | "terminal" | "non_retryable"
    upload_err,       \* the message of the error upload_file returned
    last_outcome,     \* what the environment did at the last try_upload
    last_try,         \* what the last try_upload returned: [ok, msg]
    tries,            \* per attempt so far: "ok" | "retryable" | "other"
    \* ---- Uploader::new / add_auth (upload.rs) ----
    api_config,       \* ApiConfig {auth, bearer_token, basic_username, basic_password}
    build_ok,         \* whether client_builder.build() succeeds in this environment
    npc,              \* "start" | "built" | "err"
    new_err,          \* which bail!/context ended Uploader::new
    auth_checks,      \* how many times the auth configuration was validated
    requests,         \* the Authorization header kind of each request sent
    \* ---- FileWatcher::find_newest_file (file_utils.rs) ----
    dir,              \* what glob yields: a sequence of entries
    pattern_ok,       \* whether "{output_dir}/{file_glob}" is a well-formed pattern
    filename_timestamp_prefix,
    fpc,              \* "start" | "done"
    newest,           \* the Result<Option<PathBuf>> returned
    \* ---- FileWatcher::wait_for_stable_file (file_utils.rs) ----
    stable_size_check_secs,
    last_size,
    stable_count,
    total_wait_secs,
    wpc,              \* "poll" | "stable" | "timeout"
    wait_result,      \* "none" | "Ok"
    reads,            \* how many times fs::metadata was called
    last_read,        \* the outcome of the last fs::metadata: a size, or ReadErr
    all_same,         \* every read so far succeeded and returned first_size
    first_size,       \* the size the first read returned (ReadErr if it failed)
    \* ---- main / run_once (main.rs) ----
    config,           \* the parts of Config that main and run_once branch on
    mpc,              \* position in main
    rpc,              \* position in run_once
    stages,           \* the stages run_once has invoked in the current run
    newest_file,      \* run_once's local `newest_file`
    is_transformed,   \* run_once's local `is_transformed`
    temp_exists,      \* whether the transformed temporary file is on disk
    run_warnings,     \* the warn! lines of the current run
    run_result,       \* "none" | "Ok" | "Err"
    runs,             \* number of runs started
    exit_code,        \* "none" | "Ok" | "Err" | "panic": how main ended
    \* ---- Transformer::transform_file (transform.rs) ----
    transform_config, \* TransformConfig
    input_lines,      \* content.lines() of the input file
    tpc,              \* "start" | "done" ("idle" outside this component)
    transform_result, \* Err, or Ok with the bytes written to the temp file
    \* ---- LookupEnricher::enrich_tsv_file (lookup.rs) ----
    lookup_config,    \* LookupConfig {chunk_size}
    parsed,           \* what parse_tsv_file returns for the input file
    part_numbers,     \* local `part_numbers`
    lookup_requests,  \* the chunk of each GET sent so far, in order
    lookup_responses, \* what the server answered to each of them
    chunk_results,    \* what lookup_single_chunk returned for each of them
    lookup_data,      \* lookup_chunks' local `all_lookup_data`
    lpc,              \* "start" | "lookup" | "done" ("idle" outside a call)
    enrich_result,    \* Err, or Ok with the rows returned
    \* ---- Uploader::is_retryable_error (upload.rs) ----
    error_message,    \* error.to_string() of the error passed in
    cpc,              \* "start" | "done" ("idle" outside this component)
    retryable,        \* the bool returned
    \* ---- Transformer::find_data_start (transform.rs) ----
    dpc,              \* "start" | "done" ("idle" outside this component)
    data_start,       \* the Result<usize> returned
    \* ---- LookupEnricher::parse_tsv_file (lookup.rs) ----
    tsv_readable,     \* whether read_to_string(path) succeeds
    tsv_lines,        \* content.lines() of the file read
    ppc,              \* "start" | "done" ("idle" outside this component)
    parse_result,     \* the Vec<EnrichedRow> returned
    \* ---- main, from the menu to the first run (main.rs) ----
    main_config,      \* the Config that Config::load returned, then as main changes it
    menu_input,       \* the item chosen in the landing menu, NoMenu with CLI overrides
    menu_selection,   \* main's menu_selection: 2 for Some(2), NoMenu for None
    spc,              \* where main stands
    main_result       \* "none", "Ok" or the error main returned

uploadVars == <<retry_config, api_mode, attempt, backoff_secs, sleeps, upc,
                fail_kind, upload_err, last_outcome, last_try, tries>>
newVars    == <<api_config, build_ok, npc, new_err, auth_checks, requests>>
newestVars == <<dir, pattern_ok, filename_timestamp_prefix, fpc, newest>>
stableVars == <<stable_size_check_secs, last_size, stable_count,
                total_wait_secs, wpc, wait_result, reads, last_read, all_same,
                first_size>>
runVars    == <<config, mpc, rpc, stages, newest_file, is_transformed, temp_exists,
                run_warnings, run_result, runs, exit_code>>

transformVars == <<transform_config, input_lines, tpc, transform_result>>

lookupVars == <<lookup_config, parsed, part_numbers, lookup_requests,
                lookup_responses, chunk_results, lookup_data, lpc, enrich_result>>

classifyVars == <<error_message, cpc, retryable>>

dataStartVars == <<dpc, data_start>>

parseVars == <<tsv_readable, tsv_lines, ppc, parse_result>>

startVars == <<main_config, menu_input, menu_selection, spc, main_result>>

vars == <<uploadVars, newVars, newestVars, stableVars, runVars, transformVars,
          lookupVars, classifyVars, dataStartVars, parseVars,
          startVars>>

-----------------------------------------------------------------------------
(***************************************************************************)
(* Text.                                                                   *)
(***************************************************************************)

Min(a, b) == IF a <= b THEN a ELSE b
Max(a, b) == IF a >= b THEN a ELSE b

\* str::to_lowercase on one character (ASCII letters; the rest is unchanged).
LowerChar(c) ==
    CASE c = "A" -> "a" [] c = "B" -> "b" [] c = "C" -> "c" [] c = "D" -> "d"
      [] c = "E" -> "e" [] c = "F" -> "f" [] c = "G" -> "g" [] c = "H" -> "h"
      [] c = "I" -> "i" [] c = "J" -> "j" [] c = "K" -> "k" [] c = "L" -> "l"
      [] c = "M" -> "m" [] c = "N" -> "n" [] c = "O" -> "o" [] c = "P" -> "p"
      [] c = "Q" -> "q" [] c = "R" -> "r" [] c = "S" -> "s" [] c = "T" -> "t"
      [] c = "U" -> "u" [] c = "V" -> "v" [] c = "W" -> "w" [] c = "X" -> "x"
      [] c = "Y" -> "y" [] c = "Z" -> "z" [] OTHER -> c

to_lowercase(s) == [i \in 1..Len(s) |-> LowerChar(s[i])]

\* str::contains: `pat` occurs in `s` as a contiguous substring.
contains(s, pat) ==
    \E i \in 0..(Len(s) - Len(pat)) : SubSeq(s, i + 1, i + Len(pat)) = pat

DigitChar(d) == <<"0", "1", "2", "3", "4", "5", "6", "7", "8", "9">>[d + 1]

\* Display of an unsigned integer: its decimal digits.
RECURSIVE NatToStr(_)
NatToStr(n) == IF n < 10 THEN <<DigitChar(n)>>
               ELSE NatToStr(n \div 10) \o <<DigitChar(n % 10)>>

-----------------------------------------------------------------------------
(***************************************************************************)
(* Uploader::upload_file.                                                  *)
(***************************************************************************)

\* http::StatusCode::canonical_reason for the statuses the model's server answers.
canonical_reason(status) ==
    CASE status = 200 -> <<"O","K">>
      [] status = 201 -> <<"C","r","e","a","t","e","d">>
      [] status = 202 -> <<"A","c","c","e","p","t","e","d">>
      [] status = 204 -> <<"N","o"," ","C","o","n","t","e","n","t">>
      [] status = 302 -> <<"F","o","u","n","d">>
      [] status = 400 -> <<"B","a","d"," ","R","e","q","u","e","s","t">>
      [] status = 404 -> <<"N","o","t"," ","F","o","u","n","d">>
      [] status = 405 -> <<"M","e","t","h","o","d"," ","N","o","t"," ","A","l","l","o","w","e","d">>
      [] status = 408 -> <<"R","e","q","u","e","s","t"," ","T","i","m","e","o","u","t">>
      [] status = 500 -> <<"I","n","t","e","r","n","a","l"," ","S","e","r","v","e","r"," ","E","r","r","o","r">>
      [] status = 502 -> <<"B","a","d"," ","G","a","t","e","w","a","y">>
      [] status = 504 -> <<"G","a","t","e","w","a","y"," ","T","i","m","e","o","u","t">>
      [] OTHER -> <<"<","u","n","k","n","o","w","n"," ","s","t","a","t","u","s"," ","c","o","d","e",">">>

\* Display of a StatusCode: "<code> <canonical reason>".
StatusDisplay(status) == NatToStr(status) \o <<" ">> \o canonical_reason(status)

is_client_error(status) == 400 <= status /\ status < 500
is_server_error(status) == 500 <= status /\ status < 600

Ok == [ok |-> TRUE, msg |-> <<>>]
Err(m) == [ok |-> FALSE, msg |-> m]

\* response.text().await.unwrap_or_else(|_| "Failed to read response body")
response_text(body, text_ok) ==
    IF text_ok THEN body
    ELSE <<"F","a","i","l","e","d"," ","t","o"," ","r","e","a","d"," ",
           "r","e","s","p","o","n","s","e"," ","b","o","d","y">>

handle_response_AllSuccess(status, text) ==
    IF 200 <= status /\ status < 300 THEN Ok
    ELSE Err(<<"U","n","e","x","p","e","c","t","e","d"," ","s","t","a","t","u","s"," ",
               "c","o","d","e",":"," ">> \o StatusDisplay(status) \o <<" ","-"," ">> \o text)

handle_response(status, text) ==
    IF status \in {200, 201, 202} THEN Ok
    ELSE IF is_client_error(status) THEN
        Err(<<"C","l","i","e","n","t"," ","e","r","r","o","r"," ","(">>
            \o StatusDisplay(status) \o <<")",":"," ">> \o text)
    ELSE IF is_server_error(status) THEN
        Err(<<"S","e","r","v","e","r"," ","e","r","r","o","r"," ","(">>
            \o StatusDisplay(status) \o <<")",":"," ">> \o text)
    ELSE
        Err(<<"U","n","e","x","p","e","c","t","e","d"," ","s","t","a","t","u","s"," ",
              "c","o","d","e",":"," ">> \o StatusDisplay(status) \o <<" ","-"," ">> \o text)

\* What the environment does during one try_upload: the file cannot be read,
\* request.send() fails (connection, network, timeout), or a response arrives.
NoRequest == [kind |-> "no_request", status |-> 0, body |-> <<>>, text_ok |-> TRUE]
ReadFail  == [kind |-> "read_fail", status |-> 0, body |-> <<>>, text_ok |-> TRUE]
SendFail  == [kind |-> "send_fail", status |-> 0, body |-> <<>>, text_ok |-> TRUE]

Statuses == {200, 201, 202, 204, 302, 400, 404, 405, 408, 500, 502, 504}
Bodies == {<<>>, <<"d","e","n","i","e","d">>, <<"c","o","d","e"," ","5">>}

Responses == [kind : {"response"}, status : Statuses, body : Bodies, text_ok : BOOLEAN]

\* anyhow's Display (to_string) of an error with context shows the outermost
\* context only, so a failed fs::read or request.send() renders as its context.
upload_multipart(outcome) ==
    IF outcome.kind = "read_fail" THEN
        Err(<<"F","a","i","l","e","d"," ","t","o"," ","r","e","a","d"," ","f","i","l","e"," ",
              "f","o","r"," ","m","u","l","t","i","p","a","r","t"," ","u","p","l","o","a","d">>)
    ELSE IF outcome.kind = "send_fail" THEN
        Err(<<"F","a","i","l","e","d"," ","t","o"," ","s","e","n","d"," ",
              "m","u","l","t","i","p","a","r","t"," ","r","e","q","u","e","s","t">>)
    ELSE handle_response(outcome.status, response_text(outcome.body, outcome.text_ok))

upload_json_base64(outcome) ==
    IF outcome.kind = "read_fail" THEN
        Err(<<"F","a","i","l","e","d"," ","t","o"," ","r","e","a","d"," ","f","i","l","e"," ",
              "f","o","r"," ","b","a","s","e","6","4"," ","e","n","c","o","d","i","n","g">>)
    ELSE IF outcome.kind = "send_fail" THEN
        Err(<<"F","a","i","l","e","d"," ","t","o"," ","s","e","n","d"," ",
              "J","S","O","N"," ","r","e","q","u","e","s","t">>)
    ELSE handle_response(outcome.status, response_text(outcome.body, outcome.text_ok))

ModeText(mode) ==
    CASE mode = "multipart" -> <<"m","u","l","t","i","p","a","r","t">>
      [] mode = "json_base64" -> <<"j","s","o","n","_","b","a","s","e","6","4">>
      [] mode = "lookup_enrich" -> <<"l","o","o","k","u","p","_","e","n","r","i","c","h">>

try_upload(mode, outcome) ==
    CASE mode = "multipart" -> upload_multipart(outcome)
      [] mode = "json_base64" -> upload_json_base64(outcome)
      [] OTHER -> Err(<<"I","n","v","a","l","i","d"," ","u","p","l","o","a","d"," ",
                        "m","o","d","e",":"," ">> \o ModeText(mode))

\* The outcomes the environment can produce under a mode: an invalid mode
\* fails before the file is read or a request is built.
EnvOutcomes(mode) ==
    IF mode \in {"multipart", "json_base64"}
    THEN {ReadFail, SendFail} \cup Responses
    ELSE {NoRequest}

is_retryable_error_CaseSensitive(error) ==
    \/ contains(error, <<"t","i","m","e","o","u","t">>)
    \/ contains(error, <<"c","o","n","n","e","c","t","i","o","n">>)
    \/ contains(error, <<"n","e","t","w","o","r","k">>)
    \/ contains(error, <<"s","e","r","v","e","r"," ","e","r","r","o","r">>)
    \/ contains(error, <<"5">>)

is_retryable_error(error) ==
    LET error_str == to_lowercase(error) IN
    \/ contains(error_str, <<"t","i","m","e","o","u","t">>)
    \/ contains(error_str, <<"c","o","n","n","e","c","t","i","o","n">>)
    \/ contains(error_str, <<"n","e","t","w","o","r","k">>)
    \/ contains(error_str, <<"s","e","r","v","e","r"," ","e","r","r","o","r">>)
    \/ contains(error_str, <<"5">>)

BackoffCap == 30

NextBackoff_NoCap(b) == b * 2

\* backoff_secs = (backoff_secs * 2).min(30)
NextBackoff(b) == Min(b * 2, BackoffCap)

AfterFailure_RetryFirst(n, max_attempts, e) ==
    IF is_retryable_error(e) THEN "retry"
    ELSE IF n >= max_attempts THEN "terminal"
    ELSE "non_retryable"

AfterFailure_OneMore(n, max_attempts, e) ==
    IF n > max_attempts THEN "terminal"
    ELSE IF is_retryable_error(e) THEN "retry"
    ELSE "non_retryable"

\* The Err arm of upload_file's match: what follows a failed attempt n.
AfterFailure(n, max_attempts, e) ==
    IF n >= max_attempts THEN "terminal"
    ELSE IF is_retryable_error(e) THEN "retry"
    ELSE "non_retryable"

TerminalMsg(max_attempts, e) ==
    <<"U","p","l","o","a","d"," ","f","a","i","l","e","d"," ","a","f","t","e","r"," ">>
    \o NatToStr(max_attempts) \o <<" ","a","t","t","e","m","p","t","s",":"," ">> \o e

NonRetryableMsg(e) ==
    <<"N","o","n","-","r","e","t","r","y","a","b","l","e"," ","e","r","r","o","r",":"," ">> \o e

MaxAttemptsBound == 3
InitialBackoffs == {0, 1, 3, 8, 16, 31}
Modes == {"multipart", "json_base64", "lookup_enrich"}

\* One iteration of upload_file's loop: attempt += 1, try_upload, and the match
\* on its result (return, bail, or sleep and double the backoff).
UploadAttempt ==
    /\ upc = "attempt"
    /\ \E outcome \in EnvOutcomes(api_mode) :
        /\ last_outcome' = outcome
        /\ LET n == attempt + 1
               r == try_upload(api_mode, outcome)
               next == AfterFailure(n, retry_config.max_attempts, r.msg)
           IN
            /\ attempt' = n
            /\ last_try' = r
            /\ tries' = Append(tries, IF r.ok THEN "ok"
                                      ELSE IF is_retryable_error(r.msg) THEN "retryable"
                                      ELSE "other")
            /\ IF r.ok THEN
                   /\ upc' = "done"
                   /\ UNCHANGED <<backoff_secs, sleeps, fail_kind, upload_err>>
               ELSE IF next = "terminal" THEN
                   /\ upc' = "failed"
                   /\ fail_kind' = "terminal"
                   /\ upload_err' = TerminalMsg(retry_config.max_attempts, r.msg)
                   /\ UNCHANGED <<backoff_secs, sleeps>>
               ELSE IF next = "retry" THEN
                   /\ sleeps' = Append(sleeps, backoff_secs)
                   /\ backoff_secs' = NextBackoff(backoff_secs)
                   /\ upc' = "attempt"
                   /\ UNCHANGED <<fail_kind, upload_err>>
               ELSE
                   /\ upc' = "failed"
                   /\ fail_kind' = "non_retryable"
                   /\ upload_err' = NonRetryableMsg(r.msg)
                   /\ UNCHANGED <<backoff_secs, sleeps>>
    /\ UNCHANGED <<retry_config, api_mode, newVars, newestVars, stableVars, runVars, transformVars, lookupVars, classifyVars, dataStartVars, parseVars, startVars>>

-----------------------------------------------------------------------------
(***************************************************************************)
(* Uploader::is_retryable_error, on messages of any origin.                *)
(***************************************************************************)

MaxPhrases == 2

\* Pieces of error messages, the ones of test_retryable_error_detection among
\* them; a message is up to MaxPhrases of them separated by one space.
Phrases ==
    {<<"C","o","n","n","e","c","t","i","o","n">>,
     <<"t","i","m","e","o","u","t">>,
     <<"S","e","r","v","e","r"," ","e","r","r","o","r">>,
     <<"5","0","0">>,
     <<"N","e","t","w","o","r","k"," ","e","r","r","o","r">>,
     <<"C","l","i","e","n","t"," ","e","r","r","o","r">>,
     <<"4","0","0">>,
     <<"I","n","v","a","l","i","d"," ","f","i","l","e"," ","f","o","r","m","a","t">>,
     <<"N","E","T","W","O","R","K">>,
     <<"s","e","r","v","e","r">>,
     <<"e","r","r","o","r">>,
     <<"4","5">>}

RECURSIVE JoinPhrases(_)
JoinPhrases(ps) ==
    IF ps = <<>> THEN <<>>
    ELSE IF Len(ps) = 1 THEN ps[1]
    ELSE ps[1] \o <<" ">> \o JoinPhrases(Tail(ps))

ErrorMessages ==
    {JoinPhrases(ps) : ps \in UNION {[1..n -> Phrases] : n \in 0..MaxPhrases}}

\* self.is_retryable_error(&e)
IsRetryableError ==
    /\ cpc = "start"
    /\ retryable' = is_retryable_error(error_message)
    /\ cpc' = "done"
    /\ UNCHANGED <<error_message, uploadVars, newVars, newestVars, stableVars, runVars,
                   transformVars, lookupVars, dataStartVars, parseVars, startVars>>

-----------------------------------------------------------------------------
(***************************************************************************)
(* Uploader::new and add_auth.                                             *)
(***************************************************************************)

AuthCheck_TokenUnchecked(api) ==
    CASE api.auth = "bearer" -> "ok"
      [] api.auth = "basic" ->
            IF api.basic_username = "" \/ api.basic_password = ""
            THEN "basic_credentials_required" ELSE "ok"
      [] api.auth = "none" -> "ok"
      [] OTHER -> "invalid_auth_type"

\* The match on api_config.auth in Uploader::new: "ok", or the bail! taken.
AuthCheck(api) ==
    CASE api.auth = "bearer" ->
            IF api.bearer_token = "" THEN "bearer_token_required" ELSE "ok"
      [] api.auth = "basic" ->
            IF api.basic_username = "" \/ api.basic_password = ""
            THEN "basic_credentials_required" ELSE "ok"
      [] api.auth = "none" -> "ok"
      [] OTHER -> "invalid_auth_type"

\* Uploader::new: the auth match, then client_builder.build() with its context.
Uploader_new(api, client_build_ok) ==
    IF AuthCheck(api) # "ok" THEN AuthCheck(api)
    ELSE IF ~client_build_ok THEN "client_build_failed"
    ELSE "ok"

\* add_auth: the Authorization header a request gets. It validates nothing.
add_auth(api) ==
    CASE api.auth = "bearer" -> <<"Bearer", api.bearer_token>>
      [] api.auth = "basic" -> <<"Basic", api.basic_username, api.basic_password>>
      [] OTHER -> <<"none">>

AuthModes == {"none", "bearer", "basic", "digest", ""}
Secrets == {"", "s"}
MaxRequests == 2

\* main.rs line 148: Uploader::new(&config.api, &config.retry)?
UploaderNew ==
    /\ npc = "start"
    /\ auth_checks' = auth_checks + 1
    /\ new_err' = Uploader_new(api_config, build_ok)
    /\ npc' = IF Uploader_new(api_config, build_ok) = "ok" THEN "built" ELSE "err"
    /\ UNCHANGED <<api_config, build_ok, requests,
                   uploadVars, newestVars, stableVars, runVars, transformVars, lookupVars, classifyVars, dataStartVars, parseVars, startVars>>

\* A request of upload_multipart / upload_json_base64: request = add_auth(request),
\* then request.send(). Only a constructed Uploader can send.
SendRequest ==
    /\ npc = "built"
    /\ Len(requests) < MaxRequests
    /\ requests' = Append(requests, add_auth(api_config))
    /\ UNCHANGED <<api_config, build_ok, npc, new_err, auth_checks,
                   uploadVars, newestVars, stableVars, runVars, transformVars, lookupVars, classifyVars, dataStartVars, parseVars, startVars>>

-----------------------------------------------------------------------------
(***************************************************************************)
(* FileWatcher::find_newest_file.                                          *)
(***************************************************************************)

IsDigit(c) == c \in {"0", "1", "2", "3", "4", "5", "6", "7", "8", "9"}

DigitVal(c) ==
    CASE c = "0" -> 0 [] c = "1" -> 1 [] c = "2" -> 2 [] c = "3" -> 3 [] c = "4" -> 4
      [] c = "5" -> 5 [] c = "6" -> 6 [] c = "7" -> 7 [] c = "8" -> 8 [] c = "9" -> 9

\* str::parse::<u32>() of a string of ASCII digits.
RECURSIVE ParseNat(_)
ParseNat(s) == IF s = <<>> THEN 0
               ELSE ParseNat(SubSeq(s, 1, Len(s) - 1)) * 10 + DigitVal(s[Len(s)])

IsLeap(y) == (y % 4 = 0 /\ y % 100 # 0) \/ y % 400 = 0

DaysInMonth(y, m) ==
    IF m \in {1, 3, 5, 7, 8, 10, 12} THEN 31
    ELSE IF m \in {4, 6, 9, 11} THEN 30
    ELSE IF IsLeap(y) THEN 29 ELSE 28

\* chrono::NaiveDate::from_ymd_opt(..).is_some()
from_ymd_opt_ok(y, m, d) == 1 <= m /\ m <= 12 /\ 1 <= d /\ d <= DaysInMonth(y, m)

\* NaiveDate::and_hms_opt(..).is_some()
and_hms_opt_ok(h, mi, s) == h < 24 /\ mi < 60 /\ s < 60

\* Days from 1970-01-01 to the civil date y-m-d (proleptic Gregorian).
DaysFromCivil(y, m, d) ==
    LET yy  == IF m <= 2 THEN y - 1 ELSE y
        era == yy \div 400
        yoe == yy - era * 400
        mp  == IF m > 2 THEN m - 3 ELSE m + 9
        doy == (153 * mp + 2) \div 5 + d - 1
        doe == yoe * 365 + yoe \div 4 - yoe \div 100 + doy
    IN  era * 146097 + doe - 719468

\* SystemTime::from(datetime.and_utc()), in seconds since UNIX_EPOCH.
UtcSeconds(y, m, d, h, mi, s) == DaysFromCivil(y, m, d) * 86400 + h * 3600 + mi * 60 + s

None == [some |-> FALSE, val |-> 0, panic |-> FALSE]
Some(v) == [some |-> TRUE, val |-> v, panic |-> FALSE]
\* A slice that panics ("byte index 14 is not a char boundary").
SlicePanic == [some |-> FALSE, val |-> 0, panic |-> TRUE]

\* A file name is the sequence of the bytes of its UTF-8 form: an ASCII byte is
\* written as its character, another byte by its code in hexadecimal.
ContinuationBytes == {"A9"}

\* str::is_char_boundary(i): i is the length, or the byte at offset i (the
\* (i+1)-th byte) does not continue a character.
is_char_boundary(s, i) == i = 0 \/ i = Len(s) \/ (i < Len(s) /\ s[i + 1] \notin ContinuationBytes)

\* filename.len() is the length in bytes, and &filename[..14] panics when
\* byte offset 14 falls inside a character.
parse_timestamp_from_filename(filename) ==
    IF Len(filename) < 14 THEN None
    ELSE IF ~is_char_boundary(filename, 14) THEN SlicePanic
    ELSE LET ts == SubSeq(filename, 1, 14) IN
         IF \A i \in 1..14 : IsDigit(ts[i]) THEN
             LET year   == ParseNat(SubSeq(ts, 1, 4))
                 month  == ParseNat(SubSeq(ts, 5, 6))
                 day    == ParseNat(SubSeq(ts, 7, 8))
                 hour   == ParseNat(SubSeq(ts, 9, 10))
                 minute == ParseNat(SubSeq(ts, 11, 12))
                 second == ParseNat(SubSeq(ts, 13, 14))
             IN  IF from_ymd_opt_ok(year, month, day) /\ and_hms_opt_ok(hour, minute, second)
                 THEN Some(UtcSeconds(year, month, day, hour, minute, second))
                 ELSE None
         ELSE None

\* get_file_time: the parsed prefix when enabled and valid, else the mtime.
get_file_time(entry, prefix_enabled) ==
    IF prefix_enabled /\ parse_timestamp_from_filename(entry.name).some
    THEN parse_timestamp_from_filename(entry.name).val
    ELSE entry.mtime

\* get_file_time does not return: the slice in parse_timestamp_from_filename
\* panicked.
get_file_time_panics(entry, prefix_enabled) ==
    prefix_enabled /\ parse_timestamp_from_filename(entry.name).panic

\* slice::sort_by with |a, b| b_time.cmp(&a_time): a stable sort, newest first.
\* Insert e after every element that is not older than it.
RECURSIVE InsertDesc(_, _, _)
InsertDesc(sorted, e, prefix_enabled) ==
    IF sorted = <<>> THEN <<e>>
    ELSE IF get_file_time(Head(sorted), prefix_enabled) >= get_file_time(e, prefix_enabled)
         THEN <<Head(sorted)>> \o InsertDesc(Tail(sorted), e, prefix_enabled)
         ELSE <<e>> \o sorted

RECURSIVE SortDesc(_, _)
SortDesc(s, prefix_enabled) ==
    IF s = <<>> THEN <<>>
    ELSE InsertDesc(SortDesc(SubSeq(s, 1, Len(s) - 1), prefix_enabled),
                    s[Len(s)], prefix_enabled)

\* The glob loop: Ok(path) entries that are regular files; Err entries are
\* logged and skipped, other paths (directories) are dropped.
Candidates(entries) == SelectSeq(entries, LAMBDA e : e.kind = "file")

NoFile == [name |-> <<>>, mtime |-> 0, kind |-> "none"]
ResErr(why) == [tag |-> "Err", some |-> FALSE, file |-> NoFile, why |-> why]
ResNone == [tag |-> "Ok", some |-> FALSE, file |-> NoFile, why |-> "none"]
ResSome(f) == [tag |-> "Ok", some |-> TRUE, file |-> f, why |-> "none"]
ResPanic == [tag |-> "Panic", some |-> FALSE, file |-> NoFile,
             why |-> "byte index 14 is not a char boundary"]

\* get_file_time is called on every candidate by the comparator of sort_by
\* when there are two candidates or more, and on the selected candidate by the
\* arguments of info! when the info level is enabled.
find_newest_file_panics(cands, prefix_enabled, info_enabled) ==
    /\ Len(cands) >= 2 \/ info_enabled
    /\ \E i \in 1..Len(cands) : get_file_time_panics(cands[i], prefix_enabled)

find_newest_file(entries, glob_ok, prefix_enabled, info_enabled) ==
    IF ~glob_ok THEN ResErr("Failed to read glob pattern")
    ELSE IF Candidates(entries) = <<>> THEN ResNone
    ELSE IF find_newest_file_panics(Candidates(entries), prefix_enabled, info_enabled)
    THEN ResPanic
    ELSE ResSome(Head(SortDesc(Candidates(entries), prefix_enabled)))

\* The directory snapshots of the model. Names: two valid prefixes one second
\* apart, a valid prefix on a leap day of an earlier year, 29 February of a
\* year that is not a leap year, month 13, a non-digit in the prefix, a name
\* shorter than 14 bytes, and "report_2025_0\u00E9.txt", whose two-byte
\* character occupies byte offsets 13 and 14.
FileNames == {
    <<"2","0","2","5","1","0","1","6","1","7","0","6","0","1","_","a",".","t","x","t">>,
    <<"2","0","2","5","1","0","1","6","1","7","0","6","0","2","_","a",".","t","x","t">>,
    <<"2","0","2","4","0","2","2","9","2","3","5","9","5","9","_","b",".","t","x","t">>,
    <<"2","0","2","5","0","2","2","9","0","0","0","0","0","0","_","b",".","t","x","t">>,
    <<"2","0","2","5","1","3","1","6","1","7","0","6","0","3","_","a",".","t","x","t">>,
    <<"2","0","2","5","1","0","1","6","1","7","0","6","0","x","_","a",".","t","x","t">>,
    <<"o","l","d","_","f","i","l","e",".","t","x","t">>,
    <<"r","e","p","o","r","t","_","2","0","2","5","_","0","C3","A9",".","t","x","t">> }

\* 2025-10-16 17:06:01 UTC, the first valid prefix above, so that modification
\* times fall before, on and after the prefix times.
MTimeBase == 1760634361
MaxMTimeOffset == 2
MTimes == {MTimeBase - 1 + k : k \in 0..MaxMTimeOffset}

FileEntries == [name : FileNames, mtime : MTimes, kind : {"file"}]
OtherEntries == {
    [name |-> <<"s","u","b","d","i","r">>, mtime |-> MTimeBase, kind |-> "dir"],
    [name |-> <<"l","o","c","k","e","d">>, mtime |-> MTimeBase, kind |-> "err"] }
Entries == FileEntries \cup OtherEntries

MaxFiles == 3

DistinctNames(s) == \A i, j \in 1..Len(s) : i # j => s[i].name # s[j].name

RECURSIVE DirsOfLen(_)
DirsOfLen(n) ==
    IF n = 0 THEN {<<>>}
    ELSE {Append(d, e) : d \in DirsOfLen(n - 1), e \in Entries}

Dirs(maxLen) == {d \in UNION {DirsOfLen(n) : n \in 0..maxLen} : DistinctNames(d)}

FindNewest ==
    /\ fpc = "start"
    /\ \E info_enabled \in BOOLEAN :
        newest' = find_newest_file(dir, pattern_ok, filename_timestamp_prefix, info_enabled)
    /\ fpc' = "done"
    /\ UNCHANGED <<dir, pattern_ok, filename_timestamp_prefix,
                   uploadVars, newVars, stableVars, runVars, transformVars, lookupVars, classifyVars, dataStartVars, parseVars, startVars>>

-----------------------------------------------------------------------------
(***************************************************************************)
(* FileWatcher::wait_for_stable_file.                                      *)
(***************************************************************************)

MaxWaitSecs == 10
ReadErr == -1

\* (stable_size_check_secs * 2).max(1)
required_stable_checks(secs) == Max(secs * 2, 1)

AfterRead_ErrResets(size, count, r) ==
    IF r = ReadErr THEN [last_size |-> size, stable_count |-> 0, equal |-> FALSE]
    ELSE IF r = size THEN [last_size |-> size, stable_count |-> count + 1, equal |-> TRUE]
    ELSE [last_size |-> r, stable_count |-> 0, equal |-> FALSE]

\* The match on fs::metadata: what a read does to last_size and stable_count,
\* and whether it took the current_size == last_size branch.
AfterRead(size, count, r) ==
    IF r = ReadErr THEN [last_size |-> size, stable_count |-> count, equal |-> FALSE]
    ELSE IF r = size THEN [last_size |-> size, stable_count |-> count + 1, equal |-> TRUE]
    ELSE [last_size |-> r, stable_count |-> 0, equal |-> FALSE]

CeilingReached_Late(total) == total > MaxWaitSecs * 2

\* total_wait_secs >= max_wait_secs * 2
CeilingReached(total) == total >= MaxWaitSecs * 2

MaxStableSecs == 11
MaxSize == 2
ReadOutcomes == (0..MaxSize) \cup {ReadErr}

\* One iteration of the loop: fs::metadata, the comparison, and, unless the
\* file is found stable, the 500 ms sleep and the ceiling test.
Poll ==
    /\ wpc = "poll"
    /\ \E r \in ReadOutcomes :
        LET a == AfterRead(last_size, stable_count, r)
            isStable == a.equal
                        /\ a.stable_count >= required_stable_checks(stable_size_check_secs)
        IN  /\ reads' = reads + 1
            /\ last_read' = r
            /\ first_size' = IF reads = 0 THEN r ELSE first_size
            /\ all_same' = (all_same /\ r # ReadErr /\ (reads = 0 \/ r = first_size))
            /\ last_size' = a.last_size
            /\ stable_count' = a.stable_count
            /\ IF isStable THEN
                   /\ wpc' = "stable"
                   /\ wait_result' = "Ok"
                   /\ UNCHANGED total_wait_secs
               ELSE
                   /\ total_wait_secs' = total_wait_secs + 1
                   /\ IF CeilingReached(total_wait_secs + 1)
                      THEN wpc' = "timeout" /\ wait_result' = "Ok"
                      ELSE wpc' = "poll" /\ UNCHANGED wait_result
    /\ UNCHANGED <<stable_size_check_secs, uploadVars, newVars, newestVars, runVars, transformVars, lookupVars, classifyVars, dataStartVars, parseVars, startVars>>

-----------------------------------------------------------------------------
(***************************************************************************)
(* Transformer::transform_file.                                            *)
(***************************************************************************)

\* char::is_whitespace, on the characters of the model.
IsWhitespace(c) == c \in {" ", "\t", "\r", "\n"}

RECURSIVE trim_start(_)
trim_start(s) == IF s # <<>> /\ IsWhitespace(Head(s)) THEN trim_start(Tail(s)) ELSE s

RECURSIVE trim_end(_)
trim_end(s) ==
    IF s # <<>> /\ IsWhitespace(s[Len(s)]) THEN trim_end(SubSeq(s, 1, Len(s) - 1)) ELSE s

\* str::trim
trim(s) == trim_end(trim_start(s))

\* row.replace('\t', ",")
replace_tab(s) == [i \in 1..Len(s) |-> IF s[i] = "\t" THEN "," ELSE s[i]]

RowErr(why) == [tag |-> "Err", at |-> 0, why |-> why]
RowOk(i) == [tag |-> "Ok", at |-> i, why |-> "none"]

\* The first index at or after `from` (0-based, as in the source) of a line
\* that contains header_match case-insensitively; Len(lines) when there is none.
RECURSIVE FirstHeader(_, _, _)
FirstHeader(lines, header_match, from) ==
    IF from >= Len(lines) THEN Len(lines)
    ELSE IF contains(to_lowercase(lines[from + 1]), to_lowercase(header_match)) THEN from
    ELSE FirstHeader(lines, header_match, from + 1)

find_data_start_ScanAll(lines, cfg) ==
    IF Len(lines) <= cfg.header_rows_to_skip
    THEN RowErr("Not enough lines to skip header rows")
    ELSE LET i == FirstHeader(lines, cfg.header_match, 0) IN
         IF i < Len(lines) THEN RowOk(i + 1) ELSE RowOk(cfg.header_rows_to_skip)

\* find_data_start: the 0-based index of the first data line.
find_data_start(lines, cfg) ==
    IF Len(lines) <= cfg.header_rows_to_skip
    THEN RowErr("Not enough lines to skip header rows")
    ELSE LET i == FirstHeader(lines, cfg.header_match, cfg.header_rows_to_skip) IN
         IF i < Len(lines) THEN RowOk(i + 1) ELSE RowOk(cfg.header_rows_to_skip)

extract_rows_KeepLast(lines, from, cfg, seen_rows) ==
    LET kept == {i \in (from + 1)..Len(lines) : trim(lines[i]) # <<>>}
        proc(i) == IF cfg.trim_whitespace THEN trim(lines[i]) ELSE lines[i]
        last == {i \in kept : \A j \in kept : j > i => proc(j) # proc(i)}
        pick == IF cfg.dedupe_rows THEN last ELSE kept
        idx == SelectSeq([i \in 1..Len(lines) |-> i], LAMBDA i : i \in pick)
    IN  [k \in 1..Len(idx) |-> proc(idx[k])]

\* The loop over lines.iter().enumerate().skip(data_start): `from` is the
\* 0-based index of the next line, seen_rows the HashSet.
RECURSIVE extract_rows(_, _, _, _)
extract_rows(lines, from, cfg, seen_rows) ==
    IF from >= Len(lines) THEN <<>>
    ELSE LET line == lines[from + 1]
             processed_line == IF cfg.trim_whitespace THEN trim(line) ELSE line
         IN  IF trim(line) = <<>> THEN extract_rows(lines, from + 1, cfg, seen_rows)
             ELSE IF processed_line = <<>> THEN extract_rows(lines, from + 1, cfg, seen_rows)
             ELSE IF cfg.dedupe_rows /\ processed_line \in seen_rows
                  THEN extract_rows(lines, from + 1, cfg, seen_rows)
             ELSE <<processed_line>> \o
                  extract_rows(lines, from + 1, cfg,
                               IF cfg.dedupe_rows THEN seen_rows \cup {processed_line}
                               ELSE seen_rows)

HeaderCsv == <<"P","l","a","n","t",",","D","e","l","i","v","e","r","y",",","M","a","t","e","r","i","a","l">>
HeaderTsv == <<"P","l","a","n","t","\t","D","e","l","i","v","e","r","y","\t","M","a","t","e","r","i","a","l">>

header_of(cfg) == IF cfg.format = "csv" THEN HeaderCsv ELSE HeaderTsv
line_ending_of(cfg) == IF cfg.output_line_ending = "crlf" THEN <<"\r", "\n">> ELSE <<"\n">>

\* One data row as written: tabs become commas in csv format.
write_row(row, cfg) ==
    (IF cfg.format = "csv" THEN replace_tab(row) ELSE row) \o line_ending_of(cfg)

RECURSIVE write_rows(_, _)
write_rows(rows, cfg) ==
    IF rows = <<>> THEN <<>> ELSE write_row(Head(rows), cfg) \o write_rows(Tail(rows), cfg)

TransformErr(why) == [tag |-> "Err", why |-> why, rows |-> <<>>, bytes |-> <<>>]

\* transform_file on a file that was read: the rows kept and the bytes of the
\* temporary file.
transform_file(lines, cfg) ==
    IF Len(lines) <= cfg.header_rows_to_skip
    THEN TransformErr("File has too few lines")
    ELSE LET start == find_data_start(lines, cfg) IN
         IF start.tag = "Err" THEN TransformErr(start.why)
         ELSE LET data_rows == extract_rows(lines, start.at, cfg, {}) IN
              [tag |-> "Ok", why |-> "none", rows |-> data_rows,
               bytes |-> header_of(cfg) \o line_ending_of(cfg) \o write_rows(data_rows, cfg)]

\* The lines of the model: a preamble line, the header (indented, as in the
\* reports), a line of whitespace, a row with and without indentation, the
\* same row with a comma for the tab, another row with trailing whitespace.
InputLineSet == {
    <<"R","u","n">>,
    <<" ","P","l","a","n","t","\t","D","e","l","i","v","e","r","y","\t","M","a","t","e","r","i","a","l">>,
    <<" ">>,
    <<" ","A","\t","1">>,
    <<"A","\t","1">>,
    <<"A",",","1">>,
    <<"B","\t","2"," ">> }

MaxLines == 3
MaxSkip == 1

RECURSIVE LinesOfLen(_)
LinesOfLen(n) ==
    IF n = 0 THEN {<<>>}
    ELSE {Append(d, e) : d \in LinesOfLen(n - 1), e \in InputLineSet}

TransformConfigs == [format : {"tsv", "csv"},
                     header_rows_to_skip : 0..MaxSkip,
                     header_match : {HeaderTsv},
                     dedupe_rows : BOOLEAN,
                     trim_whitespace : BOOLEAN,
                     output_line_ending : {"crlf", "lf"}]

TransformFile ==
    /\ tpc = "start"
    /\ transform_result' = transform_file(input_lines, transform_config)
    /\ tpc' = "done"
    /\ UNCHANGED <<transform_config, input_lines,
                   uploadVars, newVars, newestVars, stableVars, runVars, lookupVars, classifyVars, dataStartVars, parseVars, startVars>>

\* find_data_start on its own: the header substring as the tests configure
\* it, and in lower case, which only a case-insensitive comparison finds.
DataStartConfigs ==
    [format : {"tsv"},
     header_rows_to_skip : 0..MaxSkip,
     header_match : {HeaderTsv, <<"p","l","a","n","t">>},
     dedupe_rows : {FALSE},
     trim_whitespace : {TRUE},
     output_line_ending : {"lf"}]

\* self.find_data_start(&lines)
FindDataStart ==
    /\ dpc = "start"
    /\ data_start' = find_data_start(input_lines, transform_config)
    /\ dpc' = "done"
    /\ UNCHANGED <<uploadVars, newVars, newestVars, stableVars, runVars, transformVars,
                   lookupVars, classifyVars, parseVars, startVars>>

-----------------------------------------------------------------------------
(***************************************************************************)
(* LookupEnricher::enrich_tsv_file and what it calls.                      *)
(***************************************************************************)

\* EnrichedRow as parse_tsv_file builds it: the enrichment fields and
\* shipment are String::new().
EnrichedRow(plant, delivery, part_no) ==
    [plant |-> plant, delivery |-> delivery, part_no |-> part_no,
     duns |-> <<>>, cof |-> <<>>, country |-> <<>>, shipment |-> <<>>]

\* LookupResponse {duns, cof, country}.
LookupResponse(duns, cof, country) ==
    [duns |-> duns, cof |-> cof, country |-> country]

\* serde_json::Value, as far as lookup_single_chunk looks at it: a string
\* or a value that is not a string.
JStr(s) == [t |-> "str", s |-> s]
JNum    == [t |-> "num", s |-> <<>>]
as_str_is_some(v) == v.t = "str"

\* item.get(key): Some exactly when the object has the key.
has(item, key) == key \in DOMAIN item

\* The Result values of lookup_single_chunk and enrich_tsv_file.
LookupErr(why) == [tag |-> "Err", why |-> why, map |-> <<>>]
LookupOk(map)  == [tag |-> "Ok", why |-> "", map |-> map]
EnrichErr(why) == [tag |-> "Err", why |-> why, rows |-> <<>>]
EnrichOk(rows) == [tag |-> "Ok", why |-> "", rows |-> rows]

\* HashMap::insert / HashMap::extend: a later entry replaces an earlier one
\* with the same key.
insert(map, k, v) ==
    [x \in DOMAIN map \cup {k} |-> IF x = k THEN v ELSE map[x]]
extend(map, other) ==
    [x \in DOMAIN map \cup DOMAIN other |->
        IF x \in DOMAIN other THEN other[x] ELSE map[x]]

\* Deserialize for LookupResponse: the three fields are Strings without a
\* default, so each must be present and a JSON string.
deserializes(item) ==
    \A f \in {"duns", "cof", "country"} : has(item, f) /\ as_str_is_some(item[f])

\* serde_json::from_str::<HashMap<String, LookupResponse>>.
from_str_map(body) ==
    IF body.shape = "object" /\ \A k \in DOMAIN body.entries : deserializes(body.entries[k])
    THEN LookupOk([k \in DOMAIN body.entries |->
                     LookupResponse(body.entries[k].duns.s, body.entries[k].cof.s,
                                    body.entries[k].country.s)])
    ELSE LookupErr("parse")

\* item.get("part").or_else(|| item.get("part_no")).or_else(|| item.get("material"))
part_key_OnlyPart(item) ==
    IF has(item, "part") THEN <<item.part>> ELSE <<>>
part_key(item) ==
    IF has(item, "part") THEN <<item.part>>
    ELSE IF has(item, "part_no") THEN <<item.part_no>>
    ELSE IF has(item, "material") THEN <<item.material>>
    ELSE <<>>

\* item.get(f).and_then(|c| c.as_str()).unwrap_or("")
str_or_empty(item, f) ==
    IF has(item, f) /\ as_str_is_some(item[f]) THEN item[f].s ELSE <<>>

\* The `for item in &array_response` loop of lines 311-327.
RECURSIVE array_to_map(_, _)
array_to_map(items, map) ==
    IF items = <<>> THEN map
    ELSE LET item == Head(items)
             extractable ==
                 /\ part_key(item) # <<>>
                 /\ has(item, "duns") /\ as_str_is_some(item.duns)
                 /\ as_str_is_some(part_key(item)[1])
         IN  array_to_map(Tail(items),
                 IF extractable
                 THEN insert(map, part_key(item)[1].s,
                             LookupResponse(item.duns.s, str_or_empty(item, "cof"),
                                            str_or_empty(item, "country")))
                 ELSE map)

\* The match of lines 297-356: the body as a map, else as an array of values.
parse_lookup_body_EmptyIsErr(body) ==
    IF from_str_map(body).tag = "Ok" THEN from_str_map(body)
    ELSE IF body.shape = "array" /\ array_to_map(body.items, <<>>) # <<>>
         THEN LookupOk(array_to_map(body.items, <<>>))
    ELSE LookupErr("parse")
parse_lookup_body(body) ==
    IF from_str_map(body).tag = "Ok" THEN from_str_map(body)
    ELSE IF body.shape = "array" THEN LookupOk(array_to_map(body.items, <<>>))
    ELSE LookupErr("parse")

\* StatusCode::is_success.
is_success(status) == status >= 200 /\ status <= 299

\* lookup_single_chunk, given what the GET met.
lookup_single_chunk_StatusIgnored(response) ==
    IF response.kind = "send_err" THEN LookupErr("send")
    ELSE parse_lookup_body(response.body)
lookup_single_chunk(response) ==
    IF response.kind = "send_err" THEN LookupErr("send")
    ELSE IF ~is_success(response.status) THEN LookupErr("status")
    ELSE parse_lookup_body(response.body)

RECURSIVE dedupe_loop_NoSeen(_, _, _)
dedupe_loop_NoSeen(rows, seen, unique_parts) ==
    IF rows = <<>> THEN unique_parts
    ELSE IF trim(Head(rows).part_no) = <<>> THEN dedupe_loop_NoSeen(Tail(rows), seen, unique_parts)
    ELSE dedupe_loop_NoSeen(Tail(rows), seen, Append(unique_parts, Head(rows).part_no))
\* dedupe_part_numbers: the loop of lines 222-229.
RECURSIVE dedupe_loop(_, _, _)
dedupe_loop(rows, seen, unique_parts) ==
    IF rows = <<>> THEN unique_parts
    ELSE LET part_no == Head(rows).part_no IN
         IF trim(part_no) = <<>> THEN dedupe_loop(Tail(rows), seen, unique_parts)
         ELSE IF part_no \notin seen
              THEN dedupe_loop(Tail(rows), seen \cup {part_no}, Append(unique_parts, part_no))
              ELSE dedupe_loop(Tail(rows), seen, unique_parts)
dedupe_part_numbers(rows) == dedupe_loop(rows, {}, <<>>)

RECURSIVE chunks_OfOne(_, _)
chunks_OfOne(v, chunk_size) ==
    IF v = <<>> THEN <<>> ELSE <<SubSeq(v, 1, 1)>> \o chunks_OfOne(Tail(v), chunk_size)
\* slice::chunks(chunk_size): consecutive chunks, the last one maybe shorter.
RECURSIVE chunks(_, _)
chunks(v, chunk_size) ==
    IF v = <<>> THEN <<>>
    ELSE <<SubSeq(v, 1, Min(chunk_size, Len(v)))>>
         \o chunks(SubSeq(v, Min(chunk_size, Len(v)) + 1, Len(v)), chunk_size)

\* merge_lookup_data: `for row in &mut rows`, lines 366-372.
merge_row_Shifted(row, data) ==
    IF row.part_no \in DOMAIN data
    THEN [row EXCEPT !.duns = data[row.part_no].duns,
                     !.cof = data[row.part_no].country,
                     !.country = data[row.part_no].cof]
    ELSE row
merge_row(row, data) ==
    IF row.part_no \in DOMAIN data
    THEN [row EXCEPT !.duns = data[row.part_no].duns,
                     !.cof = data[row.part_no].cof,
                     !.country = data[row.part_no].country]
    ELSE row
merge_lookup_data(rows, data) ==
    [i \in 1..Len(rows) |-> merge_row(rows[i], data)]

\* str::split('\t'): the fields between the tabs, one more than there are tabs.
RECURSIVE split_tab(_, _)
split_tab(s, field) ==
    IF s = <<>> THEN <<field>>
    ELSE IF Head(s) = "\t" THEN <<field>> \o split_tab(Tail(s), <<>>)
    ELSE split_tab(Tail(s), Append(field, Head(s)))

\* col.split_whitespace().collect()[0] on a col that is not blank: the
\* characters of the trimmed col up to its first whitespace.
RECURSIVE UpToWhitespace(_)
UpToWhitespace(s) ==
    IF s = <<>> \/ IsWhitespace(Head(s)) THEN <<>>
    ELSE <<Head(s)>> \o UpToWhitespace(Tail(s))
first_token(col) == UpToWhitespace(trim_start(col))

\* The loop `for i in (2..cols.len()).rev()` of lines 181-192; i is 0-based.
RECURSIVE find_part_no(_, _)
find_part_no(cols, i) ==
    IF i < 2 THEN <<>>
    ELSE IF trim(cols[i + 1]) # <<>> THEN first_token(trim(cols[i + 1]))
    ELSE find_part_no(cols, i - 1)

is_header_PlantOnly(trimmed_line) ==
    contains(to_lowercase(trimmed_line), <<"p","l","a","n","t">>)
\* lc.contains("plant") && lc.contains("delivery") && lc.contains("material")
is_header(trimmed_line) ==
    LET lc == to_lowercase(trimmed_line) IN
    /\ contains(lc, <<"p","l","a","n","t">>)
    /\ contains(lc, <<"d","e","l","i","v","e","r","y">>)
    /\ contains(lc, <<"m","a","t","e","r","i","a","l">>)

\* The body of `for line in content.lines()` (lines 143-210).
RECURSIVE parse_lines_Untrimmed(_, _, _)
parse_lines_Untrimmed(lines, seen_header, rows) ==
    IF lines = <<>> THEN rows
    ELSE LET trimmed_line == trim(Head(lines))
             cols == split_tab(Head(lines), <<>>)
             plant == trim(cols[1])
             delivery == trim(cols[2])
             part_no == find_part_no(cols, Len(cols) - 1)
         IN  IF trimmed_line = <<>> THEN parse_lines_Untrimmed(Tail(lines), seen_header, rows)
             ELSE IF ~seen_header
                  THEN parse_lines_Untrimmed(Tail(lines), is_header(trimmed_line), rows)
             ELSE IF Len(cols) < 3 THEN parse_lines_Untrimmed(Tail(lines), seen_header, rows)
             ELSE IF plant = <<>> /\ delivery = <<>> /\ part_no = <<>>
                  THEN parse_lines_Untrimmed(Tail(lines), seen_header, rows)
             ELSE parse_lines_Untrimmed(Tail(lines), seen_header,
                                        Append(rows, EnrichedRow(plant, delivery, part_no)))
RECURSIVE parse_lines(_, _, _)
parse_lines(lines, seen_header, rows) ==
    IF lines = <<>> THEN rows
    ELSE LET trimmed_line == trim(Head(lines))
             cols == split_tab(trimmed_line, <<>>)
             plant == trim(cols[1])
             delivery == trim(cols[2])
             part_no == find_part_no(cols, Len(cols) - 1)
         IN  IF trimmed_line = <<>> THEN parse_lines(Tail(lines), seen_header, rows)
             ELSE IF ~seen_header
                  THEN parse_lines(Tail(lines), is_header(trimmed_line), rows)
             ELSE IF Len(cols) < 3 THEN parse_lines(Tail(lines), seen_header, rows)
             ELSE IF plant = <<>> /\ delivery = <<>> /\ part_no = <<>>
                  THEN parse_lines(Tail(lines), seen_header, rows)
             ELSE parse_lines(Tail(lines), seen_header,
                              Append(rows, EnrichedRow(plant, delivery, part_no)))

\* parse_tsv_file on a file that was read.
parse_tsv_file(lines) == parse_lines(lines, FALSE, <<>>)

\* The rows parse_tsv_file can return: plant and delivery trimmed, plant not
\* empty, part_no one whitespace-free token, never empty.
MaxRows == 3
MaxChunkSize == 2

Plant1 == <<"P">>
Part1 == <<"1">>
Part2 == <<"2">>
Part3 == <<"3">>
PartNos == {Part1, Part2, Part3}
RowSet == {EnrichedRow(Plant1, d, p) : d \in {<<"a">>, <<"b">>}, p \in PartNos}
RowLists == UNION {[1..n -> RowSet] : n \in 0..MaxRows}
ParseOk(rows) == [tag |-> "Ok", rows |-> rows]
ParseErr == [tag |-> "Err", rows |-> <<>>]

\* The lines of the files parse_tsv_file is run on.
MaxTsvLines == 4
\* A line of the report's preamble
TsvPreamble == <<"R","e","p">>
\* A blank line
TsvBlank == <<" ">>
\* The header with spaces and in mixed case (test at 470-508)
TsvHeaderSpaces == <<"P","L","A","N","T"," ","d","e","l","i","v","e","r","y"," "," ","M","a","t","e","r","i","a","l">>
\* A line with two of the three header words
TsvHalfHeader == <<"P","l","a","n","t","\t","M","a","t","e","r","i","a","l">>
\* A row with a leading tab and an empty column (tests at 470-542)
TsvRowIndented == <<"\t","P","\t","a","\t","\t","1">>
\* A row whose material column holds two tokens
TsvRowTokens == <<"P","\t","b","\t","2"," ","x">>
\* A row of two columns
TsvRowShort == <<"P","\t","a">>
\* A row whose material column is empty
TsvRowNoMaterial == <<"P","\t","b","\t">>
\* A row with padded columns and a fourth column
TsvRowPadded == <<"P"," ","\t"," ","a","\t","1","\t","2">>
TsvLineSet == {TsvPreamble, TsvBlank, HeaderTsv, TsvHeaderSpaces, TsvHalfHeader, TsvRowIndented,
               TsvRowTokens, TsvRowShort, TsvRowNoMaterial, TsvRowPadded}
TsvFiles == UNION {[1..n -> TsvLineSet] : n \in 0..MaxTsvLines}

\* parse_tsv_file(path): read_to_string fails, or the lines are parsed.
ParseTsvFile ==
    /\ ppc = "start"
    /\ parse_result' = IF tsv_readable THEN ParseOk(parse_tsv_file(tsv_lines)) ELSE ParseErr
    /\ ppc' = "done"
    /\ UNCHANGED <<tsv_readable, tsv_lines, uploadVars, newVars, newestVars, stableVars, runVars, transformVars,
                   lookupVars, classifyVars, dataStartVars, startVars>>


\* Response bodies: a JSON object of part number -> object, a JSON array of
\* values, or text that is neither.
ObjectBody(entries) == [shape |-> "object", entries |-> entries, items |-> <<>>]
ArrayBody(items) == [shape |-> "array", entries |-> <<>>, items |-> items]
OtherBody == [shape |-> "other", entries |-> <<>>, items |-> <<>>]

Rec1 == LookupResponse(<<"d", "1">>, <<"c", "1">>, <<"U", "S">>)
Rec2 == LookupResponse(<<"d", "2">>, <<"c", "2">>, <<"D", "E">>)
Fields(rec) == [duns |-> JStr(rec.duns), cof |-> JStr(rec.cof), country |-> JStr(rec.country)]
Keys == {"part", "part_no", "material"}
Item(key, part_no, rec) == (key :> JStr(part_no)) @@ Fields(rec)

LookupBodies ==
    {OtherBody, ObjectBody(<<>>), ArrayBody(<<>>)}
    \cup {ObjectBody(Part1 :> Fields(Rec1)),
          ObjectBody(Part2 :> Fields(Rec2)),
          ObjectBody((Part1 :> Fields(Rec2)) @@ (Part2 :> Fields(Rec1))),
          \* a value without cof
          ObjectBody(Part1 :> [duns |-> JStr(Rec1.duns), country |-> JStr(Rec1.country)])}
    \cup {ArrayBody(<<Item(key, Part1, Rec1)>>) : key \in Keys}
    \cup {ArrayBody(<<Item("part_no", Part2, Rec2)>>),
          ArrayBody(<<Item("part", Part1, Rec1), Item("material", Part1, Rec2)>>),
          \* only part and duns
          ArrayBody(<<[part |-> JStr(Part1), duns |-> JStr(Rec1.duns)]>>),
          \* duns is not a string
          ArrayBody(<<[part |-> JStr(Part1), duns |-> JNum]>>),
          \* no duns
          ArrayBody(<<[part |-> JStr(Part1), cof |-> JStr(Rec1.cof)]>>),
          \* no part key
          ArrayBody(<<Fields(Rec1)>>),
          \* "part" is present but not a string, "part_no" is
          ArrayBody(<<("part" :> JNum) @@ Item("part_no", Part1, Rec1)>>),
          \* a record whose part number is the empty string
          ArrayBody(<<Item("part", <<>>, Rec2)>>)}

LookupResponses ==
    {[kind |-> "send_err", status |-> 0, body |-> OtherBody]}
    \cup {[kind |-> "response", status |-> 404, body |-> OtherBody],
          [kind |-> "response", status |-> 500, body |-> ArrayBody(<<>>)]}
    \cup {[kind |-> "response", status |-> 200, body |-> b] : b \in LookupBodies}

\* What the lookup service answers inside a run of main: a transport
\* failure, a server error, no data, data for one part.
RunLookupResponses ==
    {r \in LookupResponses :
        \/ r.kind = "send_err"
        \/ r.status = 500
        \/ r.status = 200 /\ r.body \in {ArrayBody(<<>>), ObjectBody(Part1 :> Fields(Rec1))}}

\* enrich_tsv_file up to the call of lookup_chunks (lines 48-97).
EnrichStart ==
    /\ lpc = "start"
    /\ IF parsed.tag = "Err" THEN
            /\ enrich_result' = EnrichErr("parse")
            /\ lpc' = "done"
            /\ UNCHANGED part_numbers
       ELSE IF parsed.rows = <<>> \/ dedupe_part_numbers(parsed.rows) = <<>> THEN
            /\ enrich_result' = EnrichOk(parsed.rows)
            /\ lpc' = "done"
            /\ part_numbers' = <<>>
       ELSE
            /\ part_numbers' = dedupe_part_numbers(parsed.rows)
            /\ lpc' = "lookup"
            /\ UNCHANGED enrich_result
    /\ UNCHANGED <<lookup_config, parsed, lookup_requests, lookup_responses,
                   chunk_results, lookup_data,
                   uploadVars, newVars, newestVars, stableVars, runVars, transformVars, classifyVars, dataStartVars, parseVars, startVars>>

\* One turn of lookup_chunks' loop (lines 246-250): the GET for the next
\* chunk and what lookup_single_chunk makes of the answer; after the last
\* chunk, merge_lookup_data and Ok(enriched_rows) (lines 100-124).
LookupChunk ==
    /\ lpc = "lookup"
    /\ LET all_chunks == chunks(part_numbers, lookup_config.chunk_size)
           k == Len(lookup_requests) + 1
       IN
       \E response \in IF mpc = "idle" THEN LookupResponses ELSE RunLookupResponses :
         LET chunk_data == lookup_single_chunk(response) IN
           /\ lookup_requests' = Append(lookup_requests, all_chunks[k])
           /\ lookup_responses' = Append(lookup_responses, response)
           /\ chunk_results' = Append(chunk_results, chunk_data)
           /\ IF chunk_data.tag = "Err" THEN
                   /\ enrich_result' = EnrichErr(chunk_data.why)
                   /\ lpc' = "done"
                   /\ UNCHANGED lookup_data
              ELSE
                   /\ lookup_data' = extend(lookup_data, chunk_data.map)
                   /\ IF k = Len(all_chunks) THEN
                          /\ enrich_result' =
                                 EnrichOk(merge_lookup_data(parsed.rows, lookup_data'))
                          /\ lpc' = "done"
                      ELSE UNCHANGED <<enrich_result, lpc>>
    /\ UNCHANGED <<lookup_config, parsed, part_numbers,
                   uploadVars, newVars, newestVars, stableVars, runVars, transformVars, classifyVars, dataStartVars, parseVars, startVars>>

-----------------------------------------------------------------------------
(***************************************************************************)
(* main's execution loop and run_once.                                     *)
(***************************************************************************)

MaxRuns == 2
MaxRunFiles == 1
IntervalSeconds == 300

RunConfigs == [lookup_enabled : BOOLEAN,
               mode : Modes,
               transform_enabled : BOOLEAN,
               archive_enabled : BOOLEAN,
               interval_seconds : {0, IntervalSeconds}]

\* main calls run_once (lines 170 and 181).
MainStartRun ==
    /\ mpc = "start_run"
    /\ runs < MaxRuns
    /\ mpc' = "in_run"
    /\ rpc' = "spawn"
    /\ runs' = runs + 1
    /\ stages' = <<>>
    /\ run_warnings' = <<>>
    /\ run_result' = "none"
    /\ newest_file' = NoFile
    /\ is_transformed' = FALSE
    /\ temp_exists' = FALSE
    \* nothing of the previous run's enrichment is left
    /\ parsed' = ParseErr
    /\ part_numbers' = <<>>
    /\ lookup_requests' = <<>>
    /\ lookup_responses' = <<>>
    /\ chunk_results' = <<>>
    /\ lookup_data' = <<>>
    /\ lpc' = "idle"
    /\ enrich_result' = EnrichErr("none")
    /\ UNCHANGED <<config, exit_code, lookup_config, newestVars,
                   uploadVars, newVars, stableVars, transformVars, classifyVars, dataStartVars, parseVars, startVars>>

Return_KeepsGoing(result) ==
    /\ rpc' = "archive"
    /\ run_result' = result

Return(result) ==
    /\ rpc' = "returned"
    /\ run_result' = result

\* Spawn the extractor and wait for it; a non-zero exit is only a warning.
RunSpawn ==
    /\ mpc = "in_run" /\ rpc = "spawn"
    /\ stages' = Append(stages, "spawn")
    /\ \E outcome \in {"spawn_err", "wait_err", "exit_nonzero", "exit_zero"} :
        IF outcome \in {"spawn_err", "wait_err"} THEN
            /\ Return("Err")
            /\ UNCHANGED run_warnings
        ELSE
            /\ rpc' = "discover"
            /\ run_warnings' = IF outcome = "exit_nonzero"
                               THEN Append(run_warnings, "SAP auto process exited with non-zero status")
                               ELSE run_warnings
            /\ UNCHANGED run_result
    /\ UNCHANGED <<config, mpc, newest_file, is_transformed, temp_exists, runs,
                   exit_code, newestVars,
                   uploadVars, newVars, stableVars, transformVars, lookupVars, classifyVars, dataStartVars, parseVars, startVars>>

RunDiscover_NoneIsError ==
    /\ mpc = "in_run" /\ rpc = "discover"
    /\ stages' = Append(stages, "discover")
    /\ \E info_enabled \in BOOLEAN :
       LET found == find_newest_file(dir, pattern_ok, filename_timestamp_prefix, info_enabled) IN
        /\ newest' = found
        /\ IF found.tag = "Panic" THEN
               /\ rpc' = "panicked"
               /\ UNCHANGED <<run_result, newest_file, run_warnings>>
           ELSE IF found.tag = "Err" \/ ~found.some THEN
               /\ Return("Err")
               /\ UNCHANGED <<newest_file, run_warnings>>
           ELSE
               /\ rpc' = "stabilize"
               /\ newest_file' = found.file
               /\ UNCHANGED <<run_result, run_warnings>>
    /\ UNCHANGED <<config, mpc, is_transformed, temp_exists, runs, exit_code,
                   dir, pattern_ok, filename_timestamp_prefix, fpc,
                   uploadVars, newVars, stableVars, transformVars, lookupVars, classifyVars, dataStartVars, parseVars, startVars>>

\* file_watcher.find_newest_file().await? and the match on its Option.
RunDiscover ==
    /\ mpc = "in_run" /\ rpc = "discover"
    /\ stages' = Append(stages, "discover")
    /\ \E info_enabled \in BOOLEAN :
       LET found == find_newest_file(dir, pattern_ok, filename_timestamp_prefix, info_enabled) IN
        /\ newest' = found
        /\ IF found.tag = "Panic" THEN
               /\ rpc' = "panicked"
               /\ UNCHANGED <<run_result, newest_file, run_warnings>>
           ELSE IF found.tag = "Err" THEN
               /\ Return("Err")
               /\ UNCHANGED <<newest_file, run_warnings>>
           ELSE IF ~found.some THEN
               /\ Return("Ok")
               /\ run_warnings' = Append(run_warnings, "No matching files found in output directory")
               /\ UNCHANGED newest_file
           ELSE
               /\ rpc' = "stabilize"
               /\ newest_file' = found.file
               /\ UNCHANGED <<run_result, run_warnings>>
    /\ UNCHANGED <<config, mpc, is_transformed, temp_exists, runs, exit_code,
                   dir, pattern_ok, filename_timestamp_prefix, fpc,
                   uploadVars, newVars, stableVars, transformVars, lookupVars, classifyVars, dataStartVars, parseVars, startVars>>

\* file_watcher.wait_for_stable_file(&newest_file).await? : every return of
\* wait_for_stable_file is Ok(()), through the stable or the timeout path.
RunStabilize ==
    /\ mpc = "in_run" /\ rpc = "stabilize"
    /\ stages' = Append(stages, "stabilize")
    /\ \E path \in {"stable", "timeout"} :
        run_warnings' = IF path = "timeout"
                        THEN Append(run_warnings, "File did not stabilize, proceeding anyway")
                        ELSE run_warnings
    /\ rpc' = IF config.lookup_enabled /\ config.mode = "lookup_enrich" THEN "enrich"
              ELSE IF config.transform_enabled THEN "transform"
              ELSE "upload"
    /\ UNCHANGED <<config, mpc, newest_file, is_transformed, temp_exists, run_result,
                   runs, exit_code, newestVars,
                   uploadVars, newVars, stableVars, transformVars, lookupVars, classifyVars, dataStartVars, parseVars, startVars>>

AfterDelivery == IF config.archive_enabled THEN "archive" ELSE "finish"

\* The input files of the enrichment path in a run, as parse_tsv_file
\* returns them: unreadable, no rows, no part numbers, two part numbers.
RunParsed ==
    {ParseErr,
     ParseOk(<<>>),
     ParseOk(<<EnrichedRow(Plant1, <<"a">>, Part2)>>),
     ParseOk(<<EnrichedRow(Plant1, <<"a">>, Part1), EnrichedRow(Plant1, <<"b">>, Part2)>>)}

\* enricher.enrich_tsv_file(&newest_file) is called (lookup_enricher is Some
\* exactly when config.lookup.enabled, so the bail! of line 268 is not taken).
RunEnrich ==
    /\ mpc = "in_run" /\ rpc = "enrich"
    /\ stages' = Append(stages, "enrich")
    /\ rpc' = "enriching"
    /\ parsed' \in RunParsed
    /\ lpc' = "start"
    /\ UNCHANGED <<config, mpc, newest_file, is_transformed, temp_exists, run_warnings,
                   run_result, runs, exit_code, lookup_config, part_numbers,
                   lookup_requests, lookup_responses, chunk_results, lookup_data,
                   enrich_result, newestVars,
                   uploadVars, newVars, stableVars, transformVars, classifyVars, dataStartVars, parseVars, startVars>>

RunEnrichReturn_ThenTransform ==
    /\ mpc = "in_run" /\ rpc = "enriching"
    /\ lpc = "done"
    /\ IF enrich_result.tag = "Ok" THEN rpc' = "transform" /\ UNCHANGED run_result
       ELSE Return("Err")
    /\ UNCHANGED <<config, mpc, stages, newest_file, is_transformed, temp_exists,
                   run_warnings, runs, exit_code, newestVars,
                   uploadVars, newVars, stableVars, transformVars, lookupVars, classifyVars, dataStartVars, parseVars, startVars>>

\* ... .await?: the call returned, and `?` returns its error from run_once.
RunEnrichReturn ==
    /\ mpc = "in_run" /\ rpc = "enriching"
    /\ lpc = "done"
    /\ IF enrich_result.tag = "Ok" THEN rpc' = "post" /\ UNCHANGED run_result
       ELSE Return("Err")
    /\ UNCHANGED <<config, mpc, stages, newest_file, is_transformed, temp_exists,
                   run_warnings, runs, exit_code, newestVars,
                   uploadVars, newVars, stableVars, transformVars, lookupVars, classifyVars, dataStartVars, parseVars, startVars>>

\* enricher.post_enriched_data(&enriched_rows).await?
RunPost ==
    /\ mpc = "in_run" /\ rpc = "post"
    /\ stages' = Append(stages, "post")
    /\ \E ok \in BOOLEAN :
        IF ok THEN rpc' = AfterDelivery /\ UNCHANGED run_result
        ELSE Return("Err")
    /\ UNCHANGED <<config, mpc, newest_file, is_transformed, temp_exists, run_warnings,
                   runs, exit_code, newestVars,
                   uploadVars, newVars, stableVars, transformVars, lookupVars, classifyVars, dataStartVars, parseVars, startVars>>

\* transformer.transform_file(&newest_file).await? inside the `if` block. The
\* NamedTempFile is a local of that block: only its path leaves it, and the
\* file is removed when the block ends and the NamedTempFile is dropped.
RunTransform ==
    /\ mpc = "in_run" /\ rpc = "transform"
    /\ stages' = Append(stages, "transform")
    /\ \E ok \in BOOLEAN :
        IF ok THEN
            /\ rpc' = "upload"
            /\ is_transformed' = TRUE
            /\ temp_exists' = FALSE
            /\ UNCHANGED run_result
        ELSE
            /\ Return("Err")
            /\ UNCHANGED <<is_transformed, temp_exists>>
    /\ UNCHANGED <<config, mpc, newest_file, run_warnings, runs, exit_code, newestVars,
                   uploadVars, newVars, stableVars, transformVars, lookupVars, classifyVars, dataStartVars, parseVars, startVars>>

\* uploader.upload_file(&upload_file, ..).await? and the clean-up of the
\* transformed file. Every attempt reads the file first: when it is not on
\* disk, fs::read fails and upload_file returns Err.
RunUpload ==
    /\ mpc = "in_run" /\ rpc = "upload"
    /\ stages' = Append(stages, "upload")
    /\ \E ok \in (IF is_transformed /\ ~temp_exists THEN {FALSE} ELSE BOOLEAN) :
        IF ok THEN
            /\ rpc' = AfterDelivery
            /\ temp_exists' = FALSE
            /\ UNCHANGED run_result
        ELSE
            /\ Return("Err")
            /\ UNCHANGED temp_exists
    /\ UNCHANGED <<config, mpc, newest_file, is_transformed, run_warnings, runs,
                   exit_code, newestVars,
                   uploadVars, newVars, stableVars, transformVars, lookupVars, classifyVars, dataStartVars, parseVars, startVars>>

RemoveFile(d, f) == SelectSeq(d, LAMBDA e : e.name # f.name)

\* file_watcher.archive_file(&newest_file).await? : the file is moved away.
RunArchive ==
    /\ mpc = "in_run" /\ rpc = "archive"
    /\ stages' = Append(stages, "archive")
    /\ \E ok \in BOOLEAN :
        IF ok THEN
            /\ rpc' = "finish"
            /\ dir' = RemoveFile(dir, newest_file)
            /\ UNCHANGED run_result
        ELSE
            /\ Return("Err")
            /\ UNCHANGED dir
    /\ UNCHANGED <<config, mpc, newest_file, is_transformed, temp_exists, run_warnings,
                   runs, exit_code, pattern_ok, filename_timestamp_prefix, fpc, newest,
                   uploadVars, newVars, stableVars, transformVars, lookupVars, classifyVars, dataStartVars, parseVars, startVars>>

\* The final Ok(()) of run_once.
RunFinish ==
    /\ mpc = "in_run" /\ rpc = "finish"
    /\ Return("Ok")
    /\ UNCHANGED <<config, mpc, stages, newest_file, is_transformed, temp_exists,
                   run_warnings, runs, exit_code, newestVars,
                   uploadVars, newVars, stableVars, transformVars, lookupVars, classifyVars, dataStartVars, parseVars, startVars>>

\* Back in main: `run_once(..).await?` when interval_seconds == 0, and
\* `if let Err(e) = run_once(..).await { error!(..) }` in the loop.
MainAfterRun ==
    /\ mpc = "in_run" /\ rpc = "returned"
    /\ rpc' = "idle"
    /\ IF config.interval_seconds = 0
       THEN mpc' = "exited" /\ exit_code' = run_result
       ELSE mpc' = "sleep" /\ UNCHANGED exit_code
    /\ UNCHANGED <<config, stages, newest_file, is_transformed, temp_exists,
                   run_warnings, run_result, runs, newestVars,
                   uploadVars, newVars, stableVars, transformVars, lookupVars, classifyVars, dataStartVars, parseVars, startVars>>

\* A panic inside run_once unwinds through main: the process ends.
MainPanicked ==
    /\ mpc = "in_run" /\ rpc = "panicked"
    /\ rpc' = "idle"
    /\ mpc' = "exited" /\ exit_code' = "panic"
    /\ UNCHANGED <<config, stages, newest_file, is_transformed, temp_exists,
                   run_warnings, run_result, runs, newestVars,
                   uploadVars, newVars, stableVars, transformVars, lookupVars, classifyVars, dataStartVars, parseVars, startVars>>

\* sleep(Duration::from_secs(interval_seconds)) and the next iteration.
MainSleep ==
    /\ mpc = "sleep"
    /\ mpc' = "start_run"
    /\ UNCHANGED <<config, rpc, stages, newest_file, is_transformed, temp_exists,
                   run_warnings, run_result, runs, exit_code, newestVars,
                   uploadVars, newVars, stableVars, transformVars, lookupVars, classifyVars, dataStartVars, parseVars, startVars>>

-----------------------------------------------------------------------------
(***************************************************************************)
(* main, from the landing menu to the first run: the menu, the CLI         *)
(* overrides, Config::validate, the nested-loop check, the components, and *)
(* the choice between enrich_latest_file_only and run_once.                *)
(***************************************************************************)

\* Config::validate (config.rs:113-155): the first check that fails, or "ok".
validate(cfg) ==
    IF cfg.executable = "" THEN "extraction.executable cannot be empty"
    ELSE IF cfg.subcommand = "" THEN "extraction.subcommand cannot be empty"
    ELSE IF cfg.output_dir = "" THEN "files.output_dir cannot be empty"
    ELSE IF cfg.file_glob = "" THEN "files.file_glob cannot be empty"
    ELSE IF cfg.format \notin {"tsv", "csv"} THEN "transform.format must be 'tsv' or 'csv'"
    ELSE IF cfg.output_line_ending \notin {"crlf", "lf"}
         THEN "transform.output_line_ending must be 'crlf' or 'lf'"
    ELSE IF cfg.endpoint = "" THEN "api.endpoint cannot be empty"
    ELSE IF cfg.mode \notin {"multipart", "json_base64"}
         THEN "api.mode must be 'multipart' or 'json_base64'"
    ELSE IF cfg.auth \notin {"none", "bearer", "basic"}
         THEN "api.auth must be 'none', 'bearer', or 'basic'"
    ELSE IF cfg.max_attempts = 0 THEN "retry.max_attempts must be greater than 0"
    ELSE "ok"

\* No menu was shown (a CLI override was given) / menu_selection is None.
NoMenu == 9
\* The items of the landing menu by index (main.rs:77-83), and NoMenu.
MenuInputs == {0, 1, 2, 3, 4, NoMenu}
\* The interval item 1 of the menu sets when none is configured (main.rs:99).
DefaultInterval == 300

\* The configurations main can load: every field that validate, the
\* nested-loop check or the choice of the path reads, valid and not.
MainConfigs ==
    [executable : {"", "sap.exe"},
     subcommand : {"", "run", "run-loop"},
     output_dir : {"", "out"},
     file_glob : {"", "*.txt"},
     format : {"tsv", "xml"},
     output_line_ending : {"crlf", "cr"},
     endpoint : {"", "http://host/upload"},
     mode : Modes,
     auth : {"none", "digest"},
     max_attempts : {0, 3},
     lookup_enabled : BOOLEAN,
     interval_seconds : {0, 60},
     allow_nested : BOOLEAN]

\* main returns: Ok(()) or the error.
MainReturn(result) == spc' = "exit" /\ main_result' = result

\* The landing menu (main.rs:68-112), shown when no CLI override is given.
MainMenu ==
    /\ spc = "menu"
    /\ IF menu_input = 0 THEN
            /\ main_config' = [main_config EXCEPT !.interval_seconds = 0]
            /\ spc' = "validate"
            /\ UNCHANGED <<menu_selection, main_result>>
       ELSE IF menu_input = 1 THEN
            /\ main_config' = [main_config EXCEPT !.interval_seconds =
                                  IF @ = 0 THEN DefaultInterval ELSE @]
            /\ spc' = "validate"
            /\ UNCHANGED <<menu_selection, main_result>>
       ELSE IF menu_input = 2 THEN
            /\ menu_selection' = 2
            /\ spc' = "validate"
            /\ UNCHANGED <<main_config, main_result>>
       ELSE IF menu_input = NoMenu THEN
            /\ spc' = "validate"
            /\ UNCHANGED <<main_config, menu_selection, main_result>>
       ELSE
            /\ MainReturn("Ok")
            /\ UNCHANGED <<main_config, menu_selection>>
    /\ UNCHANGED <<menu_input, uploadVars, newVars, newestVars, stableVars, runVars, transformVars,
                   lookupVars, classifyVars, dataStartVars, parseVars>>

\* config.validate()? (main.rs:135)
MainValidate ==
    /\ spc = "validate"
    /\ IF validate(main_config) = "ok"
       THEN spc' = "nested" /\ UNCHANGED main_result
       ELSE MainReturn(validate(main_config))
    /\ UNCHANGED <<main_config, menu_input, menu_selection,
                   uploadVars, newVars, newestVars, stableVars, runVars, transformVars,
                   lookupVars, classifyVars, dataStartVars, parseVars>>

\* The nested-loop check (main.rs:138-143).
MainNestedCheck ==
    /\ spc = "nested"
    /\ IF /\ main_config.subcommand = "run-loop"
          /\ main_config.interval_seconds > 0
          /\ ~main_config.allow_nested
       THEN MainReturn("nested loops")
       ELSE spc' = "components" /\ UNCHANGED main_result
    /\ UNCHANGED <<main_config, menu_input, menu_selection,
                   uploadVars, newVars, newestVars, stableVars, runVars, transformVars,
                   lookupVars, classifyVars, dataStartVars, parseVars>>

\* FileWatcher::new, Transformer::new, Uploader::new and, when
\* config.lookup.enabled, LookupEnricher::new, each with `?` (main.rs:146-153).
MainCreateComponents ==
    /\ spc = "components"
    /\ \E ok \in BOOLEAN :
          IF ok THEN spc' = "dispatch" /\ UNCHANGED main_result
          ELSE MainReturn("component")
    /\ UNCHANGED <<main_config, menu_input, menu_selection,
                   uploadVars, newVars, newestVars, stableVars, runVars, transformVars,
                   lookupVars, classifyVars, dataStartVars, parseVars>>

\* `if let Some(selection) = menu_selection` (main.rs:156-165).
MainDispatch ==
    /\ spc = "dispatch"
    /\ spc' = IF menu_selection = 2 THEN "enrich_only" ELSE "run"
    /\ UNCHANGED <<main_config, menu_input, menu_selection, main_result,
                   uploadVars, newVars, newestVars, stableVars, runVars, transformVars,
                   lookupVars, classifyVars, dataStartVars, parseVars>>

\* enrich_latest_file_only up to the call of enrich_tsv_file (main.rs:313-385):
\* the directory, the newest file and its stability are the environment's.
EnrichLatestFileOnly ==
    /\ spc = "enrich_only"
    /\ \E found \in BOOLEAN :
          IF ~found THEN MainReturn("no file")
          ELSE IF ~main_config.lookup_enabled THEN MainReturn("lookup not enabled")
          ELSE IF main_config.mode # "lookup_enrich" THEN MainReturn("mode")
          ELSE spc' = "enrich_tsv_file" /\ UNCHANGED main_result
    /\ UNCHANGED <<main_config, menu_input, menu_selection,
                   uploadVars, newVars, newestVars, stableVars, runVars, transformVars,
                   lookupVars, classifyVars, dataStartVars, parseVars>>

\* The first run_once of main (main.rs:168-190) up to the choice of its path
\* (main.rs:204-278).
MainRunOnce ==
    /\ spc = "run"
    /\ \E found \in BOOLEAN :
          IF ~found THEN
               IF main_config.interval_seconds = 0
               THEN MainReturn("Ok")
               ELSE spc' = "sleep" /\ UNCHANGED main_result
          ELSE
               /\ spc' = IF main_config.lookup_enabled /\ main_config.mode = "lookup_enrich"
                         THEN "enrich_tsv_file"
                         ELSE "transform_upload"
               /\ UNCHANGED main_result
    /\ UNCHANGED <<main_config, menu_input, menu_selection,
                   uploadVars, newVars, newestVars, stableVars, runVars, transformVars,
                   lookupVars, classifyVars, dataStartVars, parseVars>>

-----------------------------------------------------------------------------
(***************************************************************************)
(* Specifications: one per component. InitOf(c) starts component c in the  *)
(* state after construction, with its inputs drawn from the model's sets,  *)
(* and parks the other components.                                         *)
(***************************************************************************)

InitOf(c) ==
    \* Uploader::upload_file: lines 56-57
    /\ retry_config \in IF c = "upload"
                        THEN [max_attempts : 0..MaxAttemptsBound,
                              initial_backoff_secs : InitialBackoffs]
                        ELSE {[max_attempts |-> 3, initial_backoff_secs |-> 3]}
    /\ api_mode \in IF c = "upload" THEN Modes ELSE {"multipart"}
    /\ attempt = 0
    /\ backoff_secs = retry_config.initial_backoff_secs
    /\ sleeps = <<>>
    /\ upc = IF c = "upload" THEN "attempt" ELSE "idle"
    /\ fail_kind = "none"
    /\ upload_err = <<>>
    /\ last_outcome = NoRequest
    /\ last_try = Ok
    /\ tries = <<>>
    \* Uploader::new
    /\ api_config \in IF c = "new"
                      THEN [auth : AuthModes, bearer_token : Secrets,
                            basic_username : Secrets, basic_password : Secrets]
                      ELSE {[auth |-> "none", bearer_token |-> "",
                             basic_username |-> "", basic_password |-> ""]}
    /\ build_ok \in IF c = "new" THEN BOOLEAN ELSE {TRUE}
    /\ npc = IF c = "new" THEN "start" ELSE "idle"
    /\ new_err = "none"
    /\ auth_checks = 0
    /\ requests = <<>>
    \* FileWatcher::find_newest_file: the directory and FilesConfig
    /\ dir \in IF c = "newest" THEN Dirs(MaxFiles)
               ELSE IF c = "run" THEN Dirs(MaxRunFiles)
               ELSE {<<>>}
    /\ pattern_ok \in IF c \in {"newest", "run"} THEN BOOLEAN ELSE {TRUE}
    /\ filename_timestamp_prefix \in IF c \in {"newest", "run"} THEN BOOLEAN ELSE {TRUE}
    /\ fpc = IF c = "newest" THEN "start" ELSE "idle"
    /\ newest = ResNone
    \* FileWatcher::wait_for_stable_file: lines 119-123
    /\ stable_size_check_secs \in IF c = "stable" THEN 0..MaxStableSecs ELSE {0}
    /\ last_size = 0
    /\ stable_count = 0
    /\ total_wait_secs = 0
    /\ wpc = IF c = "stable" THEN "poll" ELSE "idle"
    /\ wait_result = "none"
    /\ reads = 0
    /\ last_read = ReadErr
    /\ all_same = TRUE
    /\ first_size = ReadErr
    \* main, at its execution loop
    /\ config \in IF c = "run" THEN RunConfigs
                  ELSE {[lookup_enabled |-> FALSE, mode |-> "multipart",
                         transform_enabled |-> FALSE, archive_enabled |-> FALSE,
                         interval_seconds |-> 0]}
    /\ mpc = IF c = "run" THEN "start_run" ELSE "idle"
    /\ rpc = "idle"
    /\ stages = <<>>
    /\ newest_file = NoFile
    /\ is_transformed = FALSE
    /\ temp_exists = FALSE
    /\ run_warnings = <<>>
    /\ run_result = "none"
    /\ runs = 0
    /\ exit_code = "none"
    \* Transformer::new, and an input file that was read
    /\ transform_config \in IF c = "transform" THEN TransformConfigs
                            ELSE IF c = "data_start" THEN DataStartConfigs
                            ELSE {[format |-> "tsv", header_rows_to_skip |-> 0,
                                   header_match |-> HeaderTsv, dedupe_rows |-> FALSE,
                                   trim_whitespace |-> TRUE, output_line_ending |-> "crlf"]}
    /\ input_lines \in IF c \in {"transform", "data_start"}
                       THEN UNION {LinesOfLen(n) : n \in 0..MaxLines}
                       ELSE {<<>>}
    /\ tpc = IF c = "transform" THEN "start" ELSE "idle"
    /\ transform_result = TransformErr("none")
    \* LookupEnricher::new, and an input file that parse_tsv_file was given
    /\ lookup_config \in IF c = "lookup" THEN [chunk_size : 1..MaxChunkSize]
                         ELSE {[chunk_size |-> 1]}
    /\ parsed \in IF c = "lookup" THEN {ParseErr} \cup {ParseOk(rows) : rows \in RowLists}
                  ELSE {ParseErr}
    /\ part_numbers = <<>>
    /\ lookup_requests = <<>>
    /\ lookup_responses = <<>>
    /\ chunk_results = <<>>
    /\ lookup_data = <<>>
    /\ lpc = IF c = "lookup" THEN "start" ELSE "idle"
    /\ enrich_result = EnrichErr("none")
    \* an error that reached is_retryable_error
    /\ error_message \in IF c = "classify" THEN ErrorMessages ELSE {<<>>}
    /\ cpc = IF c = "classify" THEN "start" ELSE "idle"
    /\ retryable = FALSE
    \* find_data_start on the lines of a file
    /\ dpc = IF c = "data_start" THEN "start" ELSE "idle"
    /\ data_start = RowErr("none")
    \* parse_tsv_file on the lines of a file
    /\ tsv_readable \in IF c = "parse" THEN BOOLEAN ELSE {TRUE}
    /\ tsv_lines \in IF c = "parse" THEN TsvFiles ELSE {<<>>}
    /\ ppc = IF c = "parse" THEN "start" ELSE "idle"
    /\ parse_result = ParseErr
    \* main before the landing menu
    /\ main_config \in IF c = "main" THEN MainConfigs
                       ELSE {[executable |-> "sap.exe", subcommand |-> "run", output_dir |-> "out",
                              file_glob |-> "*.txt", format |-> "tsv", output_line_ending |-> "crlf",
                              endpoint |-> "http://host/upload", mode |-> "multipart", auth |-> "none",
                              max_attempts |-> 3, lookup_enabled |-> FALSE, interval_seconds |-> 0,
                              allow_nested |-> FALSE]}
    /\ menu_input \in IF c = "main" THEN MenuInputs ELSE {NoMenu}
    /\ menu_selection = NoMenu
    /\ spc = IF c = "main" THEN "menu" ELSE "idle"
    /\ main_result = "none"

NextUpload == UploadAttempt
SpecUpload == InitOf("upload") /\ [][NextUpload]_vars

\* try_upload returns (the HTTP client has its timeout) and the sleeps end:
\* the loop of upload_file keeps taking steps. This is WF_vars(NextUpload)
\* with ENABLED <<NextUpload>>_vars written as the guard it is equivalent to
\* (every outcome of an attempt changes `attempt`).
UploadEnabled == upc = "attempt"
SpecUploadFair == SpecUpload /\ ([]<>~UploadEnabled \/ []<><<NextUpload>>_vars)

NextClassify == IsRetryableError
SpecClassify == InitOf("classify") /\ [][NextClassify]_vars

NextNew == UploaderNew \/ SendRequest
SpecNew == InitOf("new") /\ [][NextNew]_vars

NextNewest == FindNewest
SpecNewest == InitOf("newest") /\ [][NextNewest]_vars

NextStable == Poll
SpecStable == InitOf("stable") /\ [][NextStable]_vars

\* The polling loop is one task whose sleeps end: it keeps taking steps.
SpecStableFair == SpecStable /\ WF_vars(NextStable)

NextTransform == TransformFile
SpecTransform == InitOf("transform") /\ [][NextTransform]_vars

NextDataStart == FindDataStart
SpecDataStart == InitOf("data_start") /\ [][NextDataStart]_vars

NextParse == ParseTsvFile
SpecParse == InitOf("parse") /\ [][NextParse]_vars

NextMain ==
    \/ MainMenu
    \/ MainValidate
    \/ MainNestedCheck
    \/ MainCreateComponents
    \/ MainDispatch
    \/ EnrichLatestFileOnly
    \/ MainRunOnce
SpecMain == InitOf("main") /\ [][NextMain]_vars

NextLookup == EnrichStart \/ LookupChunk
SpecLookup == InitOf("lookup") /\ [][NextLookup]_vars

NextRun ==
    \/ MainStartRun
    \/ RunSpawn
    \/ RunDiscover
    \/ RunStabilize
    \/ RunEnrich
    \/ EnrichStart
    \/ LookupChunk
    \/ RunEnrichReturn
    \/ RunPost
    \/ RunTransform
    \/ RunUpload
    \/ RunArchive
    \/ RunFinish
    \/ MainAfterRun
    \/ MainPanicked
    \/ MainSleep
SpecRun == InitOf("run") /\ [][NextRun]_vars

\* Every await of main and run_once returns: main keeps taking steps.
SpecRunFair == SpecRun /\ WF_vars(NextRun)

Spec == SpecRun

-----------------------------------------------------------------------------
(***************************************************************************)
(* Properties of Uploader::upload_file (under SpecUpload).                 *)
(***************************************************************************)

\* C1: a failed attempt n ends the call with the terminal failure when
\* n >= max_attempts; otherwise a retryable error is followed by a sleep of
\* the current backoff and attempt n+1, and a non-retryable error ends the
\* call at once with no sleep. A successful attempt ends the call; a call
\* that has ended makes no further attempt.
C1_UploadStateMachine ==
    /\ [][upc = "attempt" =>
            /\ attempt' = attempt + 1
            /\ last_try'.ok =>
                 upc' = "done" /\ sleeps' = sleeps /\ fail_kind' = "none"
            /\ (~last_try'.ok /\ attempt' >= retry_config.max_attempts) =>
                 upc' = "failed" /\ fail_kind' = "terminal" /\ sleeps' = sleeps
            /\ (~last_try'.ok /\ attempt' < retry_config.max_attempts
                    /\ is_retryable_error(last_try'.msg)) =>
                 upc' = "attempt" /\ sleeps' = Append(sleeps, backoff_secs)
            /\ (~last_try'.ok /\ attempt' < retry_config.max_attempts
                    /\ ~is_retryable_error(last_try'.msg)) =>
                 upc' = "failed" /\ fail_kind' = "non_retryable" /\ sleeps' = sleeps
       ]_vars
    /\ [][(upc # "attempt") => (attempt' = attempt /\ sleeps' = sleeps)]_vars

\* A retried failure followed by a non-retryable one, with budget remaining.
C1_Witness ==
    /\ upc = "failed" /\ fail_kind = "non_retryable"
    /\ attempt = 2 /\ retry_config.max_attempts = 3
    /\ Len(sleeps) = 1

\* C2: a failure of request.send() is retried whenever attempts remain, and
\* is a terminal failure only once max_attempts is reached.
C2_TransportFailureRetried ==
    (attempt >= 1 /\ last_outcome.kind = "send_fail") =>
        IF attempt < retry_config.max_attempts
        THEN upc = "attempt" /\ Len(sleeps) = attempt
        ELSE upc = "failed" /\ fail_kind = "terminal"

\* C3: a 4xx response ends the call after that attempt, with no sleep and no
\* further attempt, even when attempts remain.
C3_ClientErrorNotRetried ==
    (attempt >= 1 /\ last_outcome.kind = "response"
        /\ last_outcome.status >= 400 /\ last_outcome.status <= 499) =>
        /\ upc = "failed"
        /\ Len(sleeps) = attempt - 1
        /\ attempt < retry_config.max_attempts => fail_kind = "non_retryable"

\* The i-th sleep of a call that starts at backoff b0: b0, then the previous
\* value doubled and capped at 30.
RECURSIVE ExpectedSleep(_, _)
ExpectedSleep(b0, i) ==
    IF i = 1 THEN b0
    ELSE IF 2 * ExpectedSleep(b0, i - 1) > 30 THEN 30 ELSE 2 * ExpectedSleep(b0, i - 1)

\* k retryable failures, then a success, with k < max_attempts.
FailuresThenSuccess(k) ==
    /\ Len(tries) = k + 1
    /\ tries[k + 1] = "ok"
    /\ \A i \in 1..k : tries[i] = "retryable"
    /\ k < retry_config.max_attempts

\* C4 as stated: k retryable failures followed by a success, k < max_attempts,
\* succeed on attempt k+1 after the sleeps b0, then each previous value doubled
\* and capped at 30; 2 failures then success with max_attempts = 3 succeed on
\* attempt 3 after sleeping b0 and then 2*b0.
C4_SleepsB0Then2B0 ==
    LET b0 == retry_config.initial_backoff_secs IN
    \A k \in 0..MaxAttemptsBound :
        FailuresThenSuccess(k) =>
            /\ upc = "done"
            /\ attempt = k + 1
            /\ sleeps = [i \in 1..k |-> ExpectedSleep(b0, i)]
            /\ (k = 2 /\ retry_config.max_attempts = 3) =>
                   attempt = 3 /\ sleeps = <<b0, 2 * b0>>

\* C4, amended: the same, the second sleep of the 2-failure case being 2*b0
\* capped at 30: b0 and then min(2*b0, 30).
C4_BackoffSequence ==
    LET b0 == retry_config.initial_backoff_secs IN
    \A k \in 0..MaxAttemptsBound :
        FailuresThenSuccess(k) =>
            /\ upc = "done"
            /\ attempt = k + 1
            /\ sleeps = [i \in 1..k |-> ExpectedSleep(b0, i)]
            /\ (k = 2 /\ retry_config.max_attempts = 3) =>
                   attempt = 3 /\ sleeps = <<b0, IF 2 * b0 <= 30 THEN 2 * b0 ELSE 30>>

\* Two retryable failures and a success with b0 = 16: the sleeps are 16 and 30.
C4_Witness ==
    /\ upc = "done" /\ attempt = 3 /\ retry_config.max_attempts = 3
    /\ tries = <<"retryable", "retryable", "ok">>
    /\ retry_config.initial_backoff_secs = 16
    /\ sleeps = <<16, 30>>

\* C5: an attempt succeeds exactly when a response with status 200, 201 or 202
\* arrives; under every other status it fails with a message that carries the
\* status and the body text handle_response read.
C5_SuccessStatuses ==
    attempt >= 1 =>
        /\ last_try.ok <=> (last_outcome.kind = "response"
                            /\ last_outcome.status \in {200, 201, 202})
        /\ (last_outcome.kind = "response" /\ last_outcome.status \notin {200, 201, 202}) =>
              /\ ~last_try.ok
              /\ contains(last_try.msg, NatToStr(last_outcome.status))
              /\ last_outcome.text_ok => contains(last_try.msg, last_outcome.body)
              /\ LET tail == SubSeq(last_try.msg,
                                    Len(last_try.msg) - Len(last_outcome.body) + 1,
                                    Len(last_try.msg))
                 IN  last_outcome.text_ok => tail = last_outcome.body

\* A 2xx status other than 200/201/202 with a non-empty body: the attempt failed.
C5_Witness ==
    /\ attempt >= 1
    /\ last_outcome.kind = "response" /\ last_outcome.status = 204
    /\ last_outcome.body # <<>> /\ last_outcome.text_ok
    /\ ~last_try.ok

-----------------------------------------------------------------------------
(***************************************************************************)
(* Properties of Uploader::new (under SpecNew).                            *)
(***************************************************************************)

\* The auth configurations the claim names as failing.
AuthRejected(api) ==
    \/ api.auth \notin {"none", "bearer", "basic"}
    \/ api.auth = "bearer" /\ api.bearer_token = ""
    \/ api.auth = "basic" /\ (api.basic_username = "" \/ api.basic_password = "")

\* C6 as stated: Uploader::new fails if and only if the auth mode is not one
\* of none/bearer/basic, or is bearer with an empty token, or is basic with an
\* empty username or password; in every other case construction succeeds.
C6_FailsIffAuthRejected ==
    npc \in {"built", "err"} => (npc = "err" <=> AuthRejected(api_config))

\* C6, amended: Uploader::new fails if and only if the auth configuration is
\* rejected or the HTTP client cannot be built; the auth configuration is
\* checked once, in the constructor, and a request is sent only by an
\* Uploader whose construction succeeded.
C6_FailsIffAuthRejectedOrNoClient ==
    /\ npc \in {"built", "err"} =>
          /\ npc = "err" <=> (AuthRejected(api_config) \/ ~build_ok)
          /\ AuthRejected(api_config) => new_err # "client_build_failed"
          /\ auth_checks = 1
    /\ npc = "start" => (auth_checks = 0 /\ requests = <<>>)
    /\ requests # <<>> => (npc = "built" /\ ~AuthRejected(api_config) /\ auth_checks = 1)

\* auth none with empty credentials: constructed, and a request was sent.
C6_Witness ==
    /\ npc = "built"
    /\ api_config.auth = "none" /\ api_config.bearer_token = ""
    /\ api_config.basic_username = "" /\ api_config.basic_password = ""
    /\ requests # <<>>

-----------------------------------------------------------------------------
(***************************************************************************)
(* Properties of find_newest_file (under SpecNewest).                      *)
(***************************************************************************)

RegularFiles(d) == {d[i] : i \in {j \in 1..Len(d) : d[j].kind = "file"}}

ValidPrefix(name) == parse_timestamp_from_filename(name).some

\* The effective timestamp of the claim: the time parsed from a valid prefix
\* when the prefix mode is enabled, the modification time otherwise.
EffectiveTimestamp(e) ==
    IF filename_timestamp_prefix /\ ValidPrefix(e.name)
    THEN parse_timestamp_from_filename(e.name).val
    ELSE e.mtime

\* a <= b for two strings of 14 digits, compared as text (and so as numbers).
PrefixLeq(a, b) ==
    \/ SubSeq(a, 1, 14) = SubSeq(b, 1, 14)
    \/ \E i \in 1..14 : /\ SubSeq(a, 1, i - 1) = SubSeq(b, 1, i - 1)
                        /\ DigitVal(a[i]) < DigitVal(b[i])

\* C7: find_newest_file returns a regular file of maximal effective timestamp;
\* when every candidate has a valid prefix it returns the largest prefix,
\* whatever the modification times; when none has, the latest modification time.
C7_NewestByEffectiveTimestamp ==
    (fpc = "done" /\ pattern_ok /\ RegularFiles(dir) # {}) =>
        LET F == RegularFiles(dir) IN
        /\ newest.tag = "Ok" /\ newest.some
        /\ newest.file \in F
        /\ \A e \in F : EffectiveTimestamp(e) <= EffectiveTimestamp(newest.file)
        /\ (filename_timestamp_prefix /\ \A e \in F : ValidPrefix(e.name)) =>
              \A e \in F : PrefixLeq(e.name, newest.file.name)
        /\ (\A e \in F : ~(filename_timestamp_prefix /\ ValidPrefix(e.name))) =>
              \A e \in F : e.mtime <= newest.file.mtime

\* What find_newest_file does: it panics when the prefix mode is enabled and
\* the slice of a candidate's name panics (with one candidate, when the info
\* level is enabled as well), and returns as C7 says in every other case.
NewestOrPanic ==
    (fpc = "done" /\ pattern_ok /\ RegularFiles(dir) # {}) =>
        LET F == RegularFiles(dir) IN
        /\ newest.tag \in {"Ok", "Panic"}
        /\ newest.tag = "Panic" =>
              /\ filename_timestamp_prefix
              /\ \E e \in F : Len(e.name) >= 14 /\ e.name[15] \in ContinuationBytes
        /\ (Cardinality(F) >= 2 /\ filename_timestamp_prefix
              /\ \E e \in F : Len(e.name) >= 14 /\ e.name[15] \in ContinuationBytes)
              => newest.tag = "Panic"
        /\ newest.tag = "Ok" =>
              /\ newest.some /\ newest.file \in F
              /\ \A e \in F : EffectiveTimestamp(e) <= EffectiveTimestamp(newest.file)
              /\ (filename_timestamp_prefix /\ \A e \in F : ValidPrefix(e.name)) =>
                    \A e \in F : PrefixLeq(e.name, newest.file.name)
              /\ (\A e \in F : ~(filename_timestamp_prefix /\ ValidPrefix(e.name))) =>
                    \A e \in F : e.mtime <= newest.file.mtime

-----------------------------------------------------------------------------
(***************************************************************************)
(* Properties of run_once (under SpecRun).                                 *)
(***************************************************************************)

\* The run has searched the directory, and the directory is as it was searched
\* (archiving, the last stage, moves the file found out of it).
Discovered ==
    /\ Len(stages) >= 2 /\ stages[2] = "discover"
    /\ \A i \in 1..Len(stages) : stages[i] # "archive"

NoFileOutcome ==
    /\ newest.tag = "Ok" /\ ~newest.some
    /\ stages = <<"spawn", "discover">>
    /\ rpc \in {"returned", "idle"}
    /\ run_result = "Ok"
    /\ run_warnings # <<>>
    /\ run_warnings[Len(run_warnings)] = "No matching files found in output directory"

\* C8 as stated: over a directory with no matching regular file,
\* find_newest_file returns Ok(None), never an error, and the run ends
\* successfully with a warning and no later stage.
C8_NoFileNeverAnError ==
    (Discovered /\ RegularFiles(dir) = {}) => NoFileOutcome

\* C8, amended: the same, for a well-formed glob pattern; an ill-formed
\* pattern is an error of find_newest_file and of the run, whatever the
\* directory holds. A run that finds no file invokes no later stage.
C8_NoFileIsOkNone ==
    /\ (Discovered /\ pattern_ok /\ RegularFiles(dir) = {}) => NoFileOutcome
    /\ (Discovered /\ ~pattern_ok) =>
          newest.tag = "Err" /\ run_result = "Err" /\ stages = <<"spawn", "discover">>
    /\ (Discovered /\ newest.tag = "Ok" /\ ~newest.some) => NoFileOutcome

\* A directory that holds entries, none of them a matching regular file.
C8_Witness ==
    /\ Discovered /\ pattern_ok
    /\ dir # <<>> /\ RegularFiles(dir) = {}
    /\ run_result = "Ok" /\ rpc = "returned"

-----------------------------------------------------------------------------
(***************************************************************************)
(* Properties of wait_for_stable_file (under SpecStable, SpecStableFair).  *)
(***************************************************************************)

\* R of the claim: max(1, 2 * stable_size_check_secs).
RequiredReads == IF 2 * stable_size_check_secs >= 1 THEN 2 * stable_size_check_secs ELSE 1

\* C9 as stated: a file whose size is the same at every poll returns success
\* through the stable path at its R-th read, whatever its size and the window.
C9_StableAtRthRead ==
    (all_same /\ reads >= RequiredReads) => (wpc = "stable" /\ reads = RequiredReads)

\* What wait_for_stable_file does: the stable path is taken exactly when
\* stable_count reaches R, the count of consecutive reads equal to the recorded
\* size, which starts at 0. A file of constant size 0 returns at its R-th
\* read and a file of constant non-zero size at its (R+1)-th read, through the
\* stable path when that read is among the 20 reads the ceiling allows, and
\* through the timeout path otherwise.
StableWhenCounterReachesR ==
    /\ wpc = "stable" <=> stable_count >= RequiredReads
    /\ stable_count <= RequiredReads
    /\ wpc = "stable" => (wait_result = "Ok" /\ total_wait_secs < 2 * MaxWaitSecs)
    /\ (all_same /\ reads >= 1 /\ wpc # "poll") =>
          LET at == IF first_size = 0 THEN RequiredReads ELSE RequiredReads + 1 IN
          IF at <= 2 * MaxWaitSecs
          THEN wpc = "stable" /\ reads = at
          ELSE wpc = "timeout" /\ reads = 2 * MaxWaitSecs
    /\ (all_same /\ reads >= 1 /\ wpc = "poll") =>
          reads < (IF first_size = 0 THEN RequiredReads ELSE RequiredReads + 1)

\* C10: wait_for_stable_file terminates and returns Ok, whatever sizes and
\* read errors it observes, after at most 20 polling intervals.
C10_TerminatesOk ==
    /\ <>(wpc # "poll")
    /\ [](/\ total_wait_secs <= 2 * MaxWaitSecs
          /\ reads <= 2 * MaxWaitSecs
          /\ wait_result \in {"none", "Ok"}
          /\ wpc # "poll" <=> wait_result = "Ok"
          /\ wpc = "poll" => total_wait_secs < 2 * MaxWaitSecs)

\* The timeout path after 20 intervals, for a file no read of which was equal
\* to the one before.
C10_Witness ==
    /\ wpc = "timeout" /\ wait_result = "Ok"
    /\ total_wait_secs = 2 * MaxWaitSecs
    /\ stable_count = 0 /\ ~all_same

\* What one read does to the counter and the recorded size.
ReadStep ==
    reads' = reads + 1 =>
        /\ last_read' = ReadErr =>
               /\ stable_count' = stable_count
               /\ last_size' = last_size
               /\ total_wait_secs' = total_wait_secs + 1
        /\ last_read' # ReadErr /\ last_read' = last_size =>
               /\ stable_count' = stable_count + 1
               /\ last_size' = last_size
        /\ last_read' # ReadErr /\ last_read' # last_size =>
               /\ stable_count' = 0
               /\ last_size' = last_read'

\* C22: the consecutive-equal-reads counter goes up by one on a read whose
\* size equals the recorded size, goes to zero (the recorded size being
\* updated) on a read whose size differs, and is left as it is, with the
\* recorded size, by a read that fails; a failed read still uses up one
\* polling interval of the ceiling.
C22_CounterUpdates == [][ReadStep]_vars

\* A failed read that left a counter of 2 as it was.
C22_Witness ==
    /\ last_read = ReadErr
    /\ stable_count = 2
    /\ reads = 3
    /\ total_wait_secs = 3
    /\ wpc = "poll"

-----------------------------------------------------------------------------
(***************************************************************************)
(* Properties of Transformer::transform_file (under SpecTransform).        *)
(***************************************************************************)

\* The 1-based positions of the non-blank data lines of the input.
DataLines ==
    {i \in (find_data_start(input_lines, transform_config).at + 1)..Len(input_lines) :
        \E k \in 1..Len(input_lines[i]) : ~IsWhitespace(input_lines[i][k])}

\* A line as processed: trimmed if trim_whitespace.
Processed(i) ==
    IF transform_config.trim_whitespace THEN trim(input_lines[i]) ELSE input_lines[i]

\* The positions whose rows the claim says are emitted.
EmittedLines ==
    IF transform_config.dedupe_rows
    THEN {i \in DataLines : \A j \in DataLines : j < i => Processed(j) # Processed(i)}
    ELSE DataLines

\* The k-th smallest element of a set of numbers.
RECURSIVE Nth(_, _)
Nth(S, k) ==
    LET m == CHOOSE x \in S : \A y \in S : x <= y IN
    IF k = 1 THEN m ELSE Nth(S \ {m}, k - 1)

ExpectedRows == [k \in 1..Cardinality(EmittedLines) |-> Processed(Nth(EmittedLines, k))]

OutputEnding == IF transform_config.output_line_ending = "crlf" THEN <<"\r", "\n">> ELSE <<"\n">>
OutputHeader == IF transform_config.format = "csv" THEN HeaderCsv ELSE HeaderTsv

RECURSIVE Terminated(_)
Terminated(rows) ==
    IF rows = <<>> THEN <<>> ELSE Head(rows) \o OutputEnding \o Terminated(Tail(rows))

TabsToCommas(rows) ==
    [k \in 1..Len(rows) |-> [i \in 1..Len(rows[k]) |-> IF rows[k][i] = "\t" THEN "," ELSE rows[k][i]]]

\* C11 as stated: the output of a successful transform_file is the fixed header
\* line followed by exactly the processed non-blank data lines (each distinct
\* one once, at its first occurrence, when dedupe_rows; all of them otherwise),
\* in input order, each terminated by the configured line ending.
C11_OutputIsProcessedRows ==
    (tpc = "done" /\ transform_result.tag = "Ok") =>
        /\ transform_result.rows = ExpectedRows
        /\ transform_result.bytes = OutputHeader \o OutputEnding \o Terminated(ExpectedRows)

\* C11, amended: the same, each row being written with its tabs replaced by
\* commas when the format is csv.
C11_OutputIsWrittenRows ==
    (tpc = "done" /\ transform_result.tag = "Ok") =>
        /\ transform_result.rows = ExpectedRows
        /\ transform_result.bytes =
              OutputHeader \o OutputEnding \o
              Terminated(IF transform_config.format = "csv"
                         THEN TabsToCommas(ExpectedRows) ELSE ExpectedRows)

\* csv with dedupe: the header, a row and its duplicate up to indentation;
\* one row is written, with a comma.
C11_Witness ==
    /\ tpc = "done" /\ transform_result.tag = "Ok"
    /\ transform_config.format = "csv" /\ transform_config.dedupe_rows
    /\ transform_config.trim_whitespace
    /\ Len(input_lines) = 3
    /\ Cardinality(DataLines) = 2
    /\ Len(transform_result.rows) = 1
    /\ transform_result.rows[1] = <<"A", "\t", "1">>
    /\ transform_result.bytes # OutputHeader \o OutputEnding \o Terminated(transform_result.rows)

\* Properties of Transformer::find_data_start (under SpecDataStart).

\* Line `line` contains `pat`, letter case ignored.
LineHas(line, pat) ==
    \E i \in 1..(Len(line) - Len(pat) + 1) :
        \A k \in 1..Len(pat) : LowerChar(line[i + k - 1]) = LowerChar(pat[k])

\* The 0-based indices, from the skip offset on, of the lines with the header.
HeaderLinesFromSkip ==
    {i \in transform_config.header_rows_to_skip..(Len(input_lines) - 1) :
        LineHas(input_lines[i + 1], transform_config.header_match)}

\* C23: find_data_start looks only at the lines at index >= header_rows_to_skip
\* and returns the index after the first of them that contains header_match,
\* case ignored; when there is none, even with such a line before the offset,
\* it returns header_rows_to_skip; it fails only when the document has no
\* more lines than header_rows_to_skip.
C23_DataStart ==
    dpc = "done" =>
        /\ data_start.tag = "Err" <=> Len(input_lines) <= transform_config.header_rows_to_skip
        /\ data_start.tag = "Ok" /\ HeaderLinesFromSkip # {} =>
               /\ data_start.at - 1 \in HeaderLinesFromSkip
               /\ \A i \in HeaderLinesFromSkip : data_start.at - 1 <= i
        /\ data_start.tag = "Ok" /\ HeaderLinesFromSkip = {} =>
               data_start.at = transform_config.header_rows_to_skip

\* Three lines with the header as line 0 only, a skip of 1 and the header
\* substring in lower case: the fallback to index 1.
C23_Witness ==
    /\ dpc = "done"
    /\ Len(input_lines) = 3
    /\ transform_config.header_rows_to_skip = 1
    /\ transform_config.header_match = <<"p","l","a","n","t">>
    /\ LineHas(input_lines[1], transform_config.header_match)
    /\ HeaderLinesFromSkip = {}
    /\ data_start = RowOk(1)

-----------------------------------------------------------------------------
(***************************************************************************)
(* Properties of LookupEnricher (under SpecLookup).                        *)
(***************************************************************************)

\* enrich_tsv_file returned Ok after calling merge_lookup_data.
Merged ==
    /\ lpc = "done"
    /\ enrich_result.tag = "Ok"
    /\ lookup_requests # <<>>

\* C12: merge_lookup_data returns the rows it was given, as many and in the
\* same order, with plant, delivery, part_no and shipment unchanged; a row
\* whose part_no is a key of the lookup map carries that entry's duns, cof
\* and country, and every other row keeps them empty.
C12_MergeKeepsRowsAndFillsByKey ==
    Merged =>
        /\ Len(enrich_result.rows) = Len(parsed.rows)
        /\ \A i \in 1..Len(parsed.rows) :
             LET before == parsed.rows[i]
                 after == enrich_result.rows[i]
             IN  /\ after.plant = before.plant
                 /\ after.delivery = before.delivery
                 /\ after.part_no = before.part_no
                 /\ after.shipment = before.shipment
                 /\ \A f \in {"duns", "cof", "country"} :
                      after[f] = IF before.part_no \in DOMAIN lookup_data
                                 THEN lookup_data[before.part_no][f]
                                 ELSE <<>>

\* Three rows in, one of them enriched from the map and one left blank.
C12_Witness ==
    /\ Merged
    /\ Len(parsed.rows) = 3
    /\ \E i, j \in 1..3 :
         /\ parsed.rows[i].part_no \in DOMAIN lookup_data
         /\ enrich_result.rows[i].cof = <<"c", "1">>
         /\ enrich_result.rows[i].country = <<"U", "S">>
         /\ parsed.rows[j].part_no # <<>>
         /\ parsed.rows[j].part_no \notin DOMAIN lookup_data
         /\ enrich_result.rows[j].duns = <<>>

\* The answer to the k-th request is a success whose body carries the one
\* record (part_no, rec), as an object or as a one-element array.
ObjectShaped(k, part_no, rec) ==
    /\ lookup_responses[k].kind = "response"
    /\ is_success(lookup_responses[k].status)
    /\ lookup_responses[k].body = ObjectBody(part_no :> Fields(rec))
ArrayShaped(k, part_no, rec) ==
    /\ lookup_responses[k].kind = "response"
    /\ is_success(lookup_responses[k].status)
    /\ \E key \in Keys : lookup_responses[k].body = ArrayBody(<<Item(key, part_no, rec)>>)

\* The rows with the record (part_no, rec) merged in, and nothing else.
RowsWith(rows, part_no, rec) ==
    [i \in 1..Len(rows) |->
        IF rows[i].part_no = part_no
        THEN [rows[i] EXCEPT !.duns = rec.duns, !.cof = rec.cof, !.country = rec.country]
        ELSE rows[i]]

\* C13: a body {"<part>": {duns, cof, country}} and a body
\* [{"part"|"part_no"|"material": "<part>", duns, cof, country}] with the same
\* values give the same lookup map, the one entry <part> -> values, and so
\* the same merged rows.
C13_ShapesAgree ==
    \A k \in 1..Len(lookup_responses) : \A part_no \in {Part1, Part2} : \A rec \in {Rec1, Rec2} :
        ObjectShaped(k, part_no, rec) \/ ArrayShaped(k, part_no, rec) =>
            /\ chunk_results[k] = LookupOk(part_no :> rec)
            /\ lpc = "done" /\ Len(lookup_requests) = 1 =>
                   enrich_result = EnrichOk(RowsWith(parsed.rows, part_no, rec))

\* One call that met the object shape and then the array shape (under
\* "material") of the same record, and got the same map from both.
C13_Witness ==
    /\ lpc = "done"
    /\ Len(lookup_responses) = 2
    /\ ObjectShaped(1, Part1, Rec1)
    /\ lookup_responses[2].body = ArrayBody(<<Item("material", Part1, Rec1)>>)
    /\ chunk_results[1] = chunk_results[2]
    /\ chunk_results[2].tag = "Ok"
    /\ \E i \in 1..Len(enrich_result.rows) : enrich_result.rows[i].country = <<"U", "S">>

\* The answer to the k-th request is a success whose body is a JSON array
\* without a record to extract: empty, or none of its items has both a
\* string part number (under part, part_no or material) and a string duns.
NoRecordArray(k) ==
    /\ lookup_responses[k].kind = "response"
    /\ is_success(lookup_responses[k].status)
    /\ lookup_responses[k].body.shape = "array"
    /\ \A n \in 1..Len(lookup_responses[k].body.items) :
         LET item == lookup_responses[k].body.items[n] IN
           ~ /\ \E key \in Keys : has(item, key) /\ item[key].t = "str"
             /\ has(item, "duns") /\ item.duns.t = "str"

\* C14: a successful response whose body is an empty array, or an array
\* with no extractable record, is not an error: lookup_single_chunk returns
\* the empty map for that chunk, no failure of enrich_tsv_file comes from
\* such a response, and when the chunks were answered that way the call
\* returns Ok with every parsed row, duns, cof and country blank.
C14_EmptyArrayIsNotAnError ==
    /\ \A k \in 1..Len(lookup_responses) :
         NoRecordArray(k) => chunk_results[k] = LookupOk(<<>>)
    /\ lpc = "done" /\ enrich_result.tag = "Err" /\ lookup_responses # <<>> =>
         ~NoRecordArray(Len(lookup_responses))
    /\ lpc = "done" /\ lookup_responses # <<>>
          /\ (\A k \in 1..Len(lookup_responses) : NoRecordArray(k)) =>
         /\ enrich_result = EnrichOk(parsed.rows)
         /\ \A i \in 1..Len(enrich_result.rows) :
              /\ enrich_result.rows[i].duns = <<>>
              /\ enrich_result.rows[i].cof = <<>>
              /\ enrich_result.rows[i].country = <<>>

\* Two chunks, the first answered with [] and the second with an array whose
\* only item has no string duns; three rows come back blank.
C14_Witness ==
    /\ lpc = "done"
    /\ Len(lookup_responses) = 2
    /\ lookup_responses[1].body = ArrayBody(<<>>)
    /\ lookup_responses[2].body.items # <<>>
    /\ NoRecordArray(1) /\ NoRecordArray(2)
    /\ enrich_result.tag = "Ok"
    /\ Len(enrich_result.rows) = 3

\* The index of the first row carrying part_no.
FirstRow(part_no) ==
    CHOOSE i \in 1..Len(parsed.rows) :
        /\ parsed.rows[i].part_no = part_no
        /\ \A j \in 1..(i - 1) : parsed.rows[j].part_no # part_no

\* The lookup list is the distinct non-empty part numbers of the rows, each
\* once, in order of first occurrence.
DedupeIsDistinctNonEmptyFirstSeen ==
    lpc \in {"lookup", "done"} /\ parsed.tag = "Ok" =>
        /\ {part_numbers[n] : n \in 1..Len(part_numbers)}
               = {parsed.rows[i].part_no : i \in 1..Len(parsed.rows)} \ {<<>>}
        /\ \A m, n \in 1..Len(part_numbers) :
             m < n => FirstRow(part_numbers[m]) < FirstRow(part_numbers[n])

-----------------------------------------------------------------------------
(***************************************************************************)
(* Properties of a run that takes the enrichment path (under SpecRun).     *)
(***************************************************************************)

\* The answer to the k-th lookup request carries a non-success status.
NonSuccess(k) ==
    /\ lookup_responses[k].kind = "response"
    /\ ~is_success(lookup_responses[k].status)

\* C15: a non-success status on a lookup chunk is a hard failure without
\* retry: the failing request is the last one, every chunk up to it was
\* requested exactly once and in order, enrich_tsv_file returns an error and
\* no rows, and the run neither posts nor archives and ends in Err.
C15_LookupFailureIsHard ==
    \A k \in 1..Len(lookup_responses) :
        NonSuccess(k) =>
            /\ k = Len(lookup_responses)
            /\ lookup_requests =
                   SubSeq(chunks(part_numbers, lookup_config.chunk_size), 1, k)
            /\ lpc = "done"
            /\ enrich_result = EnrichErr("status")
            /\ \A i \in 1..Len(stages) : stages[i] \notin {"post", "archive"}
            /\ rpc \in {"enriching", "returned", "idle"}
            /\ rpc # "enriching" => run_result = "Err"

\* A run with archiving enabled and two chunks to look up, whose first
\* request met a 500: run_once has returned after that single request.
C15_Witness ==
    /\ rpc = "returned"
    /\ config.archive_enabled
    /\ Len(part_numbers) = 2
    /\ Len(lookup_requests) = 1
    /\ NonSuccess(1)
    /\ run_result = "Err"

\* The place of a stage in the sequence of a run: the extractor, discover,
\* stabilize, transform or enrich, upload or post, archive.
StageRank(stage) ==
    CASE stage = "spawn" -> 0
      [] stage = "discover" -> 1
      [] stage = "stabilize" -> 2
      [] stage \in {"transform", "enrich"} -> 3
      [] stage \in {"upload", "post"} -> 4
      [] stage = "archive" -> 5

\* The stages started so far in the run are in the order of the sequence,
\* none twice, and discover and stabilize are never skipped.
StagesInOrder ==
    /\ \A i, j \in 1..Len(stages) : i < j => StageRank(stages[i]) < StageRank(stages[j])
    /\ \A i \in 1..Len(stages) :
         StageRank(stages[i]) >= 3 =>
             \E a, b \in 1..(i - 1) : stages[a] = "discover" /\ stages[b] = "stabilize"

\* A stage is started only when run_once is between stages (the one before
\* has returned) and no stage of the run has failed; archive is started only
\* right after the upload or the post of the same run, which did not fail.
StageStartsAfterSuccess ==
    stages' # stages =>
        \/ stages' = <<>>
        \/ /\ \E stage \in {"spawn", "discover", "stabilize", "transform", "enrich",
                            "upload", "post", "archive"} :
                /\ stages' = Append(stages, stage)
                /\ stage = "archive" =>
                       /\ stages # <<>>
                       /\ stages[Len(stages)] \in {"upload", "post"}
           /\ run_result = "none"
           /\ rpc \notin {"enriching", "returned", "panicked", "idle"}

\* C17: every run executes discover -> stabilize -> transform/enrich ->
\* upload -> archive as a blocking ordered sequence: a stage starts only after
\* the previous one completed, a failing stage aborts the later ones, and
\* archiving starts only after the upload (or post) of that run succeeded.
C17_StagesAreSequential ==
    /\ [](StagesInOrder /\ (run_result = "Err" => rpc \in {"returned", "idle"}))
    /\ [][StageStartsAfterSuccess]_vars

\* A run on the enrichment path that went through every stage and archived.
C17_Witness ==
    /\ stages = <<"spawn", "discover", "stabilize", "enrich", "post", "archive">>
    /\ run_result = "Ok"
    /\ lookup_requests # <<>>

\* In looping mode a run that returned is followed by the interval sleep,
\* whatever it returned, and the sleep by the next run.
LoopGoesOn ==
    /\ config.interval_seconds > 0 /\ rpc = "returned" /\ rpc' # "returned" => mpc' = "sleep"
    /\ mpc = "sleep" /\ mpc' # "sleep" => mpc' = "start_run"

\* C18: in looping mode (interval_seconds > 0) no run ends the process: after
\* a run, an Err included, main sleeps and starts the next run, so runs keep
\* being started whatever the earlier ones did (here: the MaxRuns-th run is
\* reached); with interval_seconds = 0 the run's error is what main returns.
C18_LoopSurvivesRuns ==
    /\ [][LoopGoesOn]_vars
    /\ [](config.interval_seconds > 0 => mpc # "exited")
    /\ (config.interval_seconds > 0 => <>(runs = MaxRuns))
    /\ [](config.interval_seconds = 0 /\ mpc = "exited" /\ run_result = "Err"
             => exit_code = "Err")

\* Looping mode without a panic: an erroring run is followed by the sleep.
LoopSurvivesReturnedErrors ==
    [][config.interval_seconds > 0 /\ rpc = "returned" /\ run_result = "Err"
          /\ rpc' # "returned" => mpc' = "sleep" /\ exit_code' = "none"]_vars

\* Looping mode: the runs go on until one of them panics.
LoopGoesOnUnlessPanic ==
    config.interval_seconds > 0 => <>(runs = MaxRuns \/ exit_code = "panic")

\* Stage `stage` was invoked in the current run.
Invoked(stage) == \E i \in 1..Len(stages) : stages[i] = stage

\* The condition of main.rs:260 on the configuration.
EnrichmentConfigured == config.lookup_enabled /\ config.mode = "lookup_enrich"

\* C19: in a run at most one of Transformer::transform_file and
\* LookupEnricher::enrich_tsv_file is invoked, and the configuration alone
\* decides which: a run that got past stabilization has invoked enrich_tsv_file
\* exactly when lookup is enabled with mode lookup_enrich, and transform_file
\* exactly when that is not so and transform is enabled.
C19_TransformXorEnrich ==
    /\ ~(Invoked("transform") /\ Invoked("enrich"))
    /\ Invoked("enrich") => EnrichmentConfigured
    /\ Invoked("transform") => ~EnrichmentConfigured /\ config.transform_enabled
    /\ (\E i \in 1..Len(stages) : StageRank(stages[i]) >= 3) =>
          /\ EnrichmentConfigured => Invoked("enrich")
          /\ ~EnrichmentConfigured /\ config.transform_enabled => Invoked("transform")

\* The second run of a looping process with lookup and transform both
\* enabled and mode lookup_enrich: enrich_tsv_file was invoked and returned,
\* transform_file was not.
C19_Witness ==
    /\ runs = 2
    /\ config.lookup_enabled /\ config.transform_enabled /\ config.mode = "lookup_enrich"
    /\ Invoked("enrich") /\ Invoked("post")
    /\ ~Invoked("transform")

\* C20: in a run that takes the enrichment path the stage after
\* enrich_tsv_file is Uploader::upload_file, whose retry and backoff then
\* cover the delivery of the enriched rows.
C20_EnrichedRowsGoThroughUploader ==
    \A i \in 1..(Len(stages) - 1) :
        stages[i] = "enrich" => stages[i + 1] = "upload"

-----------------------------------------------------------------------------
(***************************************************************************)
(* Properties of Uploader::is_retryable_error (under SpecClassify).        *)
(***************************************************************************)

\* The message, lower-cased, has `word` at some position.
MessageHas(word) ==
    \E i \in 1..Len(error_message) :
        /\ i + Len(word) - 1 <= Len(error_message)
        /\ \A k \in 1..Len(word) : LowerChar(error_message[i + k - 1]) = word[k]

RetryWords ==
    {<<"t","i","m","e","o","u","t">>,
     <<"c","o","n","n","e","c","t","i","o","n">>,
     <<"n","e","t","w","o","r","k">>,
     <<"s","e","r","v","e","r"," ","e","r","r","o","r">>,
     <<"5">>}

\* C21: is_retryable_error returns true exactly when the lower-cased message
\* contains "timeout", "connection", "network", "server error" or the digit
\* "5"; "Client error 400" and "Invalid file format" are not retryable,
\* "Connection timeout", "Server error 500" and "Network error" are.
C21_RetryableIffSubstring ==
    cpc = "done" =>
        /\ retryable <=> \E word \in RetryWords : MessageHas(word)
        /\ error_message \in {<<"C","l","i","e","n","t"," ","e","r","r","o","r"," ","4","0","0">>,
                              <<"I","n","v","a","l","i","d"," ","f","i","l","e"," ","f","o","r","m","a","t">>} => ~retryable
        /\ error_message \in {<<"C","o","n","n","e","c","t","i","o","n"," ","t","i","m","e","o","u","t">>,
                              <<"S","e","r","v","e","r"," ","e","r","r","o","r"," ","5","0","0">>,
                              <<"N","e","t","w","o","r","k"," ","e","r","r","o","r">>} => retryable

\* "Client error 400" was classified, as not retryable.
C21_Witness ==
    /\ cpc = "done"
    /\ error_message = <<"C","l","i","e","n","t"," ","e","r","r","o","r"," ","4","0","0">>
    /\ ~retryable


\* ---------------------------------------------------------------------
\* Properties of LookupEnricher::parse_tsv_file (under SpecParse)
\* ---------------------------------------------------------------------

\* Line i of the file is not blank.
TsvNonBlank(i) == \E k \in 1..Len(tsv_lines[i]) : ~IsWhitespace(tsv_lines[i][k])

\* Line i holds the word, whatever the case of its letters.
TsvLineHas(i, word) ==
    \E k \in 0..(Len(tsv_lines[i]) - Len(word)) :
        \A j \in 1..Len(word) : LowerChar(tsv_lines[i][k + j]) = word[j]

\* The header lines of the file: "plant", "delivery" and "material" in one line.
TsvHeaders ==
    {i \in 1..Len(tsv_lines) :
        /\ TsvNonBlank(i)
        /\ TsvLineHas(i, <<"p","l","a","n","t">>)
        /\ TsvLineHas(i, <<"d","e","l","i","v","e","r","y">>)
        /\ TsvLineHas(i, <<"m","a","t","e","r","i","a","l">>)}
FirstTsvHeader == CHOOSE h \in TsvHeaders : \A g \in TsvHeaders : h <= g

\* The positions of the tabs of line i with its surrounding whitespace stripped.
Stripped(i) == trim(tsv_lines[i])
TabsOf(i) == {p \in 1..Len(Stripped(i)) : Stripped(i)[p] = "\t"}

\* The lines after the header that give a row: not blank, three fields or more.
RowLines ==
    IF TsvHeaders = {} THEN {}
    ELSE {i \in (FirstTsvHeader + 1)..Len(tsv_lines) : TsvNonBlank(i) /\ Cardinality(TabsOf(i)) >= 2}

\* C24: parse_tsv_file emits no row for a line at or before the first
\* non-blank line that holds "plant", "delivery" and "material" in any case,
\* and none for that line: the rows are as many as the lines after it that
\* give a row, wherever the header stands; a file without such a line gives
\* Ok with no rows.
C24_NoRowUpToHeader ==
    ppc = "done" =>
        /\ parse_result.tag = "Ok" <=> tsv_readable
        /\ tsv_readable => Len(parse_result.rows) = Cardinality(RowLines)
        /\ tsv_readable /\ TsvHeaders = {} => parse_result = ParseOk(<<>>)

\* A header found after a preamble of two lines, one of which would give a
\* row, followed by a row.
C24_Witness ==
    /\ ppc = "done"
    /\ tsv_readable
    /\ TsvHeaders # {}
    /\ FirstTsvHeader = 3
    /\ \E i \in 1..2 : TsvNonBlank(i) /\ Cardinality(TabsOf(i)) >= 2
    /\ Len(parse_result.rows) = 1

\* No row that parse_tsv_file returns has an empty plant or an empty part
\* number: a stripped line starts and ends with a character that is not
\* whitespace, so its first and its last field are not blank.
ParsedRowsHavePlantAndPart ==
    \A i \in 1..Len(parse_result.rows) :
        parse_result.rows[i].plant # <<>> /\ parse_result.rows[i].part_no # <<>>

\* Field k (from 1) of stripped line i: what stands between its tabs k-1 and k.
TabAt(i, k) ==
    IF k = 0 THEN 0
    ELSE IF k > Cardinality(TabsOf(i)) THEN Len(Stripped(i)) + 1
    ELSE CHOOSE p \in TabsOf(i) : Cardinality({q \in TabsOf(i) : q <= p}) = k
FieldOf(i, k) == SubSeq(Stripped(i), TabAt(i, k - 1) + 1, TabAt(i, k) - 1)

\* The first whitespace-separated token of a text that is not blank.
FirstTokenOf(s) ==
    LET t == trim(s)
        stops == {p \in 1..Len(t) : IsWhitespace(t[p])} \cup {Len(t) + 1}
        stop == CHOOSE p \in stops : \A q \in stops : p <= q
    IN  SubSeq(t, 1, stop - 1)

\* The part number of line i: from its last field of index >= 2 that is not
\* empty, or empty.
PartNoOf(i) ==
    LET filled == {k \in 3..(Cardinality(TabsOf(i)) + 1) : trim(FieldOf(i, k)) # <<>>} IN
    IF filled = {} THEN <<>>
    ELSE FirstTokenOf(FieldOf(i, CHOOSE k \in filled : \A j \in filled : j <= k))

\* C25: every non-blank line after the header, stripped and split on tab,
\* is skipped when it has fewer than 3 fields and otherwise gives one row:
\* plant and delivery are its trimmed fields 0 and 1, part_no is the first
\* token of its last non-empty field of index >= 2, duns, cof, country and
\* shipment are empty; the rows stand in the order of their lines.
C25_RowsOfDataLines ==
    ppc = "done" /\ tsv_readable =>
        /\ Len(parse_result.rows) = Cardinality(RowLines)
        /\ \A i \in RowLines :
             parse_result.rows[Cardinality({j \in RowLines : j <= i})] =
                 [plant |-> trim(FieldOf(i, 1)), delivery |-> trim(FieldOf(i, 2)),
                  part_no |-> PartNoOf(i),
                  duns |-> <<>>, cof |-> <<>>, country |-> <<>>, shipment |-> <<>>]

\* A row from a line with a leading tab and an empty column, after a row
\* from a line with two tokens in its last column, and a line of two fields
\* skipped between them.
C25_Witness ==
    /\ ppc = "done"
    /\ tsv_readable
    /\ tsv_lines = <<HeaderTsv, TsvRowTokens, TsvRowShort, TsvRowIndented>>
    /\ parse_result.rows = <<EnrichedRow(<<"P">>, <<"b">>, <<"2">>), EnrichedRow(<<"P">>, <<"a">>, <<"1">>)>>

\* ---------------------------------------------------------------------
\* Properties of LookupEnricher::lookup_chunks (under SpecLookup)
\* ---------------------------------------------------------------------

\* n: the number of distinct non-empty part numbers of the rows; c: the
\* configured chunk size; ceil(n / c).
DistinctParts == Cardinality({parsed.rows[i].part_no : i \in 1..Len(parsed.rows)} \ {<<>>})
CeilChunks == (DistinctParts + lookup_config.chunk_size - 1) \div lookup_config.chunk_size

\* The k-th GET request asks for the k-th consecutive slice of c part numbers
\* of the first-seen-ordered list (the last slice may be shorter).
RequestIsSlice(k) ==
    lookup_requests[k] =
        SubSeq(part_numbers, (k - 1) * lookup_config.chunk_size + 1,
               Min(k * lookup_config.chunk_size, Len(part_numbers)))

\* The part numbers requested, in the order of the requests.
RECURSIVE Requested(_)
Requested(k) == IF k = 0 THEN <<>> ELSE Requested(k - 1) \o lookup_requests[k]

\* C26 as stated: when enrich_tsv_file has returned, exactly ceil(n/c) GET
\* requests were issued, each for at most c part numbers, the consecutive
\* slices of the list, so that every part number was requested once; none
\* when there is no part number.
C26_ExactlyCeilRequests ==
    lpc = "done" /\ parsed.tag = "Ok" =>
        /\ Len(lookup_requests) = CeilChunks
        /\ \A k \in 1..Len(lookup_requests) :
             Len(lookup_requests[k]) <= lookup_config.chunk_size /\ RequestIsSlice(k)
        /\ Requested(Len(lookup_requests)) = part_numbers
        /\ DistinctParts = 0 => lookup_requests = <<>>

\* C26 (amended): the GET requests are issued one per step and are the first
\* consecutive slices of the list, each for at most c part numbers; they are
\* ceil(n/c), every part number requested once, when no request has failed,
\* and fewer only when the last one issued failed; none when there is no
\* part number.
C26_CeilRequestsUnlessOneFails ==
    /\ Len(lookup_requests) <= CeilChunks
    /\ \A k \in 1..Len(lookup_requests) :
         /\ Len(lookup_requests[k]) \in 1..lookup_config.chunk_size
         /\ RequestIsSlice(k)
         /\ k < Len(lookup_requests) => chunk_results[k].tag = "Ok"
    /\ lpc = "done" /\ parsed.tag = "Ok" =>
         /\ Len(lookup_requests) < CeilChunks =>
                chunk_results[Len(chunk_results)].tag = "Err"
         /\ enrich_result.tag = "Ok" =>
                /\ Len(lookup_requests) = CeilChunks
                /\ Requested(Len(lookup_requests)) = part_numbers
         /\ DistinctParts = 0 => lookup_requests = <<>>

\* Three part numbers in chunks of two: two requests, the second for one.
C26_Witness ==
    /\ lpc = "done"
    /\ enrich_result.tag = "Ok"
    /\ lookup_config.chunk_size = 2
    /\ DistinctParts = 3
    /\ Len(lookup_requests) = 2
    /\ Len(lookup_requests[2]) = 1

\* ---------------------------------------------------------------------
\* Properties of the transformed file in a run (under SpecRun)
\* ---------------------------------------------------------------------

\* C27: in a run with transform enabled the temporary file transform_file
\* produced is on disk whenever upload_file is about to be called or is
\* attempting (every attempt re-reads it): it is removed only after
\* upload_file has returned success.
C27_TempFileLivesThroughUpload ==
    mpc = "in_run" /\ rpc = "upload" /\ is_transformed => temp_exists

\* ---------------------------------------------------------------------
\* Termination and backoff of Uploader::upload_file (under SpecUploadFair
\* and SpecUpload)
\* ---------------------------------------------------------------------

\* upload_file has returned.
UploadReturned == upc \in {"done", "failed"}

\* max(1, max_attempts)
AttemptBudget == IF retry_config.max_attempts >= 1 THEN retry_config.max_attempts ELSE 1

\* C28: upload_file always returns, whatever the outcomes of the attempts
\* and whatever max_attempts (0 included); when it has returned it has made
\* at least one and at most max(1, max_attempts) calls to try_upload, and
\* exactly one backoff sleep fewer than attempts.
C28_UploadTerminates ==
    /\ <>UploadReturned
    /\ [](attempt <= AttemptBudget)
    /\ [](UploadReturned =>
            /\ attempt >= 1
            /\ Len(sleeps) = attempt - 1)

\* max_attempts = 0: one attempt, which failed, and no sleep.
C28_Witness ==
    /\ UploadReturned
    /\ retry_config.max_attempts = 0
    /\ attempt = 1
    /\ sleeps = <<>>
    /\ fail_kind = "terminal"

\* C29: no backoff sleep of upload_file is longer than 30 seconds, whatever
\* initial_backoff_secs and the number of retries, and the backoff value
\* never decreases from one retry to the next.
C29_SleepsCappedAndGrowing ==
    /\ [](\A i \in 1..Len(sleeps) : sleeps[i] <= BackoffCap)
    /\ [][backoff_secs' >= backoff_secs]_vars

\* ---------------------------------------------------------------------
\* Properties of main's way to the enrichment path (under SpecMain)
\* ---------------------------------------------------------------------

\* What both ways into the enrichment require of the configuration
\* (main.rs:260 and main.rs:371-383).
EnrichmentRequired(cfg) == cfg.lookup_enabled /\ cfg.mode = "lookup_enrich"

\* Every field other than api.mode is one Config::validate accepts.
ValidButForMode(cfg) ==
    /\ cfg.executable # "" /\ cfg.subcommand # ""
    /\ cfg.output_dir # "" /\ cfg.file_glob # ""
    /\ cfg.format \in {"tsv", "csv"} /\ cfg.output_line_ending \in {"crlf", "lf"}
    /\ cfg.endpoint # ""
    /\ cfg.auth \in {"none", "bearer", "basic"}
    /\ cfg.max_attempts > 0

\* C30: the enrichment path is reachable: a configuration as the path
\* requires it (lookup enabled, api.mode = "lookup_enrich"), valid in every
\* other field, is accepted by Config::validate, so that main goes on to
\* run_once or to 'Enrich latest file only' and not out with validate's error.
C30_EnrichmentReachable ==
    (EnrichmentRequired(main_config) /\ ValidButForMode(main_config)) =>
        /\ spc = "validate" => validate(main_config) = "ok"
        /\ spc = "exit" => main_result \in {"Ok", "nested loops", "component", "no file"}

\* main never stands at the call of enrich_tsv_file, whatever the
\* configuration and the menu item.
EnrichmentNeverReached == spc # "enrich_tsv_file"

\* Both ways to the enrichment are taken up to their tests of the
\* configuration, which then turn away from it.
EnrichmentTurnedAway ==
    \/ spc = "exit" /\ main_result \in {"lookup not enabled", "mode"}
    \/ spc = "transform_upload" /\ main_config.lookup_enabled
=============================================================================
